---- MODULE Spec2Model ----
(***************************************************************************)
(* Conflict detection and trust-weighted auction resolution of the car     *)
(* rental backend (backend/app/api/routes/{bookings,auctions,admin}.py on  *)
(* top of backend/app/core/crud.py).                                       *)
(*                                                                         *)
(* Collections are sequences in insertion order; a document's "id" is its  *)
(* position (generate_id() is a fresh uuid4, and no booking, auction or    *)
(* bid is ever deleted).  Instants and prices are integers.  A trust score  *)
(* is kept as a whole number of sixths of a point (TrustUnit), which holds *)
(* every value rate_ride computes for up to six rides of a user exactly;   *)
(* avg_rating is kept as the sum of the ratings (rating_sum), the average  *)
(* being rating_sum / total_rides.  final_score is kept in the unit        *)
(* 1 / (100 * TrustUnit): the stored value is                              *)
(* offer * (100 * TrustUnit + trust)  for the code's                       *)
(* offer * (1 + trust / 100).                                              *)
(***************************************************************************)
EXTENDS Integers, Sequences, FiniteSets, TLC

VARIABLES
    users,      \* db.users   : user id -> user document
    cars,       \* db.cars    : car id  -> [is_active]
    bookings,   \* db.bookings: Seq of booking documents
    auctions,   \* db.auctions: Seq of auction documents
    bids,       \* db.bids    : Seq of bid documents
    rides,      \* db.rides   : Seq of ride documents
    ratings,    \* db.ratings : Seq of rating documents
    procs       \* handler calls in flight (interleaved specifications)

vars == <<users, cars, bookings, auctions, bids, rides, ratings, procs>>

\* the database as one value, and a handler's result written back to it
DB == [users |-> users, cars |-> cars, bookings |-> bookings,
       auctions |-> auctions, bids |-> bids, rides |-> rides,
       ratings |-> ratings]

Commit(db) ==
    /\ users' = db.users
    /\ cars' = db.cars
    /\ bookings' = db.bookings
    /\ auctions' = db.auctions
    /\ bids' = db.bids
    /\ rides' = db.rides
    /\ ratings' = db.ratings

\* what a handler leaves behind: the database and the error it raised
\* ("ok" when it returned)
Result(db, response) == [db |-> db, response |-> response]

----------------------------------------------------------------------------
(* Bounds of the model *)

MaxBookings == 2        \* bookings created per behaviour of Spec
MaxContenders == 3      \* bookings created per behaviour of SpecContended

(* Program constants *)

AUTO_REJECT_THRESHOLD == 10     \* config.py: settings.AUTO_REJECT_THRESHOLD
LATE_CANCEL_PENALTY == 5        \* config.py: settings.LATE_CANCEL_PENALTY

(* Inputs *)

Users == {1, 2}
Cars == {1}
Times == {0, 1, 2}          \* instants of start_time and end_time
Prices == {5}               \* offer_price of a booking request
BidPrices == {4, 5, 6}      \* offer_price of a bid update (Query gt=0)
Ratings == {-1, 5}          \* driving_rating of a rating (any int)
TrustUnit == 6               \* a trust score of x points is stored as 6 * x
\* trust scores in points: user 1 as registered (crud.create_user), user 2
\* after eight late cancellations, at the reject threshold
InitTrust == [u \in Users |-> IF u = 1 THEN 50 ELSE 10]

None == 0                   \* Python None for ids (ids start at 1)
NoScore == -1               \* Python None for final_score

Max(a, b) == IF a >= b THEN a ELSE b

----------------------------------------------------------------------------
(* crud.py *)

\* create_booking: insert with status "pending"
create_booking(bk, user_id, car_id, start_time, end_time, offer_price) ==
    Append(bk, [id |-> Len(bk) + 1, user_id |-> user_id, car_id |-> car_id,
                start_time |-> start_time, end_time |-> end_time,
                offer_price |-> offer_price, status |-> "pending"])

\* update_booking with {"status": s}; update_one on a missing id is a no-op
update_booking_status(bk, booking_id, s) ==
    IF booking_id \in DOMAIN bk
    THEN [bk EXCEPT ![booking_id].status = s]
    ELSE bk

\* update_booking with {"offer_price": p}
update_booking_offer(bk, booking_id, p) ==
    IF booking_id \in DOMAIN bk
    THEN [bk EXCEPT ![booking_id].offer_price = p]
    ELSE bk

\* the overlap test with closed intervals: touching intervals overlap
Overlaps_Closed(s1, e1, s2, e2) == s1 <= e2 /\ e1 >= s2

\* the half-open overlap test of the two queries and of the hard block
Overlaps(s1, e1, s2, e2) == s1 < e2 /\ e1 > s2

\* get_conflicting_bookings: pending/competing bookings of the car that
\* overlap [start_time, end_time), without exclude_id, as documents
get_conflicting_bookings(bk, car_id, start_time, end_time, exclude_id) ==
    SelectSeq(bk, LAMBDA b :
        /\ b.car_id = car_id
        /\ b.status \in {"pending", "competing"}
        /\ Overlaps(b.start_time, b.end_time, start_time, end_time)
        /\ b.id # exclude_id)

\* create_auction: insert with status "active" and no winner
create_auction(au, car_id, start_time, end_time) ==
    Append(au, [id |-> Len(au) + 1, car_id |-> car_id,
                start_time |-> start_time, end_time |-> end_time,
                status |-> "active", winner_id |-> None])

\* find_active_auction_for_car matching only an auction with the very same
\* interval
find_active_auction_for_car_SameWindow(au, car_id, start_time, end_time) ==
    LET hits == {i \in DOMAIN au :
                    /\ au[i].car_id = car_id
                    /\ au[i].status = "active"
                    /\ au[i].start_time = start_time
                    /\ au[i].end_time = end_time}
    IN IF hits = {} THEN None
       ELSE CHOOSE i \in hits : \A j \in hits : i <= j

\* find_active_auction_for_car: find_one, the first match in insertion
\* order; None when there is none
find_active_auction_for_car(au, car_id, start_time, end_time) ==
    LET hits == {i \in DOMAIN au :
                    /\ au[i].car_id = car_id
                    /\ au[i].status = "active"
                    /\ Overlaps(au[i].start_time, au[i].end_time,
                                start_time, end_time)}
    IN IF hits = {} THEN None
       ELSE CHOOSE i \in hits : \A j \in hits : i <= j

\* create_bid: insert with final_score None
create_bid(bd, auction_id, user_id, booking_id, offer_price, trust) ==
    Append(bd, [id |-> Len(bd) + 1, auction_id |-> auction_id,
                user_id |-> user_id, booking_id |-> booking_id,
                offer_price |-> offer_price,
                trust_score_snapshot |-> trust, final_score |-> NoScore])

\* get_bid_by_user_auction: find_one, None when there is none
get_bid_by_user_auction(bd, user_id, auction_id) ==
    LET hits == {i \in DOMAIN bd :
                    bd[i].user_id = user_id /\ bd[i].auction_id = auction_id}
    IN IF hits = {} THEN None
       ELSE CHOOSE i \in hits : \A j \in hits : i <= j

\* get_auction_bids: the ids of the auction's bids
get_auction_bids(bd, auction_id) ==
    {i \in DOMAIN bd : bd[i].auction_id = auction_id}

\* create_ride: insert with status "active"
create_ride(rd, booking_id) ==
    Append(rd, [id |-> Len(rd) + 1, booking_id |-> booking_id,
                status |-> "active"])

\* get_ride_by_booking: find_one, None when there is none
get_ride_by_booking(rd, booking_id) ==
    LET hits == {i \in DOMAIN rd : rd[i].booking_id = booking_id}
    IN IF hits = {} THEN None
       ELSE CHOOSE i \in hits : \A j \in hits : i <= j

\* create_rating
create_rating(rt, ride_id, driving_rating, damage_flag, rash_flag) ==
    Append(rt, [id |-> Len(rt) + 1, ride_id |-> ride_id,
                driving_rating |-> driving_rating,
                damage_flag |-> damage_flag, rash_flag |-> rash_flag])

\* get_rating_by_ride that never finds a rating
get_rating_by_ride_Blind(rt, ride_id) == None

\* get_rating_by_ride: find_one, None when there is none
get_rating_by_ride(rt, ride_id) ==
    LET hits == {i \in DOMAIN rt : rt[i].ride_id = ride_id}
    IN IF hits = {} THEN None
       ELSE CHOOSE i \in hits : \A j \in hits : i <= j

----------------------------------------------------------------------------
\* seed_database on an empty database: the users and the cars, and no
\* booking, auction or bid
SeedStore ==
    [users |-> [u \in Users |->
                  [trust_score |-> InitTrust[u] * TrustUnit,
                   total_rides |-> 0, rating_sum |-> 0, damage_count |-> 0,
                   rash_count |-> 0, is_blocked |-> FALSE]],
     cars |-> [c \in Cars |-> [is_active |-> TRUE]],
     bookings |-> <<>>, auctions |-> <<>>, bids |-> <<>>, rides |-> <<>>,
     ratings |-> <<>>]

\* the database holds db
Holds(db) ==
    /\ users = db.users
    /\ cars = db.cars
    /\ bookings = db.bookings
    /\ auctions = db.auctions
    /\ bids = db.bids
    /\ rides = db.rides
    /\ ratings = db.ratings

Init == Holds(SeedStore) /\ procs = <<>>

----------------------------------------------------------------------------
(* bookings.py: request_booking *)

\* lines 103-105: the auto-reject gate on the authenticated user
NotEligible(user) ==
    \/ user.trust_score < AUTO_REJECT_THRESHOLD * TrustUnit
    \/ user.is_blocked

\* CarUnavailable without the test of the active flag
CarUnavailable_AnyFlag(cs, car_id) == car_id \notin DOMAIN cs

\* lines 111-113: the car must exist and be active
CarUnavailable(cs, car_id) ==
    car_id \notin DOMAIN cs \/ ~cs[car_id].is_active

\* HardBlocked with containment in place of overlap: only a confirmed
\* booking that covers the whole request blocks it
HardBlocked_Covering(bk, car_id, start_time, end_time) ==
    \E i \in DOMAIN bk :
        /\ bk[i].status = "confirmed"
        /\ bk[i].car_id = car_id
        /\ bk[i].start_time <= start_time
        /\ bk[i].end_time >= end_time

\* lines 119-134: a confirmed booking of the car overlaps the request
HardBlocked(bk, car_id, start_time, end_time) ==
    \E i \in DOMAIN bk :
        /\ bk[i].status = "confirmed"
        /\ bk[i].car_id = car_id
        /\ bk[i].start_time < end_time
        /\ bk[i].end_time > start_time

\* lines 173-187: one pass of "for conflict in conflicts"
AddConflict(db, conflict, auction_id) ==
    IF get_bid_by_user_auction(db.bids, conflict.user_id, auction_id) = None
    THEN [db EXCEPT
            !.bids = create_bid(@, auction_id, conflict.user_id, conflict.id,
                                conflict.offer_price,
                                db.users[conflict.user_id].trust_score),
            !.bookings = update_booking_status(@, conflict.id, "competing")]
    ELSE db

\* lines 172-187: the loop over conflicts, from its k-th element on
RECURSIVE AddConflicts(_, _, _, _)
AddConflicts(db, conflicts, k, auction_id) ==
    IF k > Len(conflicts) THEN db
    ELSE AddConflicts(AddConflict(db, conflicts[k], auction_id),
                      conflicts, k + 1, auction_id)

\* AddOwnBid without the lookup of an existing bid of the requester
AddOwnBid_NoLookup(db, current_user, booking_id, offer_price, auction_id) ==
    [db EXCEPT
        !.bids = create_bid(@, auction_id, current_user.id, booking_id,
                            offer_price, current_user.trust_score),
        !.bookings = update_booking_status(@, booking_id, "competing")]

\* lines 189-204: the requester's own bid, then status "competing"
AddOwnBid(db, current_user, booking_id, offer_price, auction_id) ==
    [db EXCEPT
        !.bids = IF get_bid_by_user_auction(@, current_user.id, auction_id)
                    = None
                 THEN create_bid(@, auction_id, current_user.id, booking_id,
                                 offer_price, current_user.trust_score)
                 ELSE @,
        !.bookings = update_booking_status(@, booking_id, "competing")]

\* lines 154-206: find or create the auction and fold the conflicts and the
\* new booking into it
Escalate(db, current_user, booking_id, conflicts, car_id, start_time, end_time, offer_price) ==
    LET found == find_active_auction_for_car(db.auctions, car_id, start_time,
                                             end_time)
        db1 == IF found = None
               THEN [db EXCEPT !.auctions =
                        create_auction(@, car_id, start_time, end_time)]
               ELSE db
        auction_id == IF found = None THEN Len(db1.auctions) ELSE found
    IN AddOwnBid(AddConflicts(db1, conflicts, 1, auction_id),
                 current_user, booking_id, offer_price, auction_id)

\* lines 136-206: create the booking; escalate it when it conflicts
CreateAndEscalate(db, current_user, car_id, start_time, end_time, offer_price) ==
    LET db1 == [db EXCEPT !.bookings =
                   create_booking(@, current_user.id, car_id, start_time,
                                  end_time, offer_price)]
        booking_id == Len(db1.bookings)
        conflicts == get_conflicting_bookings(db1.bookings, car_id,
                                              start_time, end_time, booking_id)
    IN IF conflicts = <<>> THEN db1
       ELSE Escalate(db1, current_user, booking_id, conflicts, car_id,
                     start_time, end_time, offer_price)

\* auth.py:75-79: get_current_user refuses a blocked account (403)
Blocked(db, user_id) == db.users[user_id].is_blocked

\* auth.py get_current_user: the user document read for the call
current_user_of(db, user_id) ==
    [id |-> user_id, trust_score |-> db.users[user_id].trust_score,
     is_blocked |-> db.users[user_id].is_blocked]

\* lines 90-208: the whole handler
RequestBooking(db, user_id, car_id, start_time, end_time, offer_price) ==
    IF Blocked(db, user_id) THEN Result(db, "AccountBlocked")
    ELSE IF start_time >= end_time THEN Result(db, "EndNotAfterStart")
    ELSE IF NotEligible(current_user_of(db, user_id))
         THEN Result(db, "NotEligible")
    ELSE IF CarUnavailable(db.cars, car_id)
         THEN Result(db, "ResourceUnavailable")
    ELSE IF HardBlocked(db.bookings, car_id, start_time, end_time)
         THEN Result(db, "SlotUnavailable")
    ELSE Result(CreateAndEscalate(db, current_user_of(db, user_id), car_id,
                                  start_time, end_time, offer_price), "ok")

request_booking(user_id, car_id, start_time, end_time, offer_price) ==
    /\ Commit(RequestBooking(DB, user_id, car_id, start_time, end_time,
                             offer_price).db)
    /\ UNCHANGED procs

----------------------------------------------------------------------------
(* auctions.py: place_bid *)

\* BidTooLow with the comparison inverted
BidTooLow_Inverted(offer_price, existing_offer) ==
    offer_price >= existing_offer

\* line 116: the new offer does not exceed the stored one
BidTooLow(offer_price, existing_offer) == offer_price <= existing_offer

\* crud.update_bid with {"offer_price": p}
update_bid_offer(bd, bid_id, p) == [bd EXCEPT ![bid_id].offer_price = p]

\* place_bid creating a bid for a user who has none in the auction
PlaceBid_AdHoc(db, user_id, auction_id, offer_price) ==
    LET existing_bid == get_bid_by_user_auction(db.bids, user_id, auction_id)
    IN IF Blocked(db, user_id) THEN Result(db, "AccountBlocked")
       ELSE IF auction_id \notin DOMAIN db.auctions
            THEN Result(db, "NotFound")
       ELSE IF existing_bid = None
            THEN Result([db EXCEPT !.bids =
                           create_bid(@, auction_id, user_id, 1, offer_price,
                                      db.users[user_id].trust_score)], "ok")
       ELSE IF db.auctions[auction_id].status # "active"
            THEN Result(db, "AuctionNotActive")
       ELSE IF BidTooLow(offer_price, db.bids[existing_bid].offer_price)
            THEN Result(db, "BidMustIncrease")
       ELSE Result([db EXCEPT
                !.bids = update_bid_offer(@, existing_bid, offer_price),
                !.bookings = update_booking_offer(@,
                                 db.bids[existing_bid].booking_id,
                                 offer_price)], "ok")

\* lines 92-131: the whole handler
PlaceBid(db, user_id, auction_id, offer_price) ==
    LET existing_bid == get_bid_by_user_auction(db.bids, user_id, auction_id)
    IN IF Blocked(db, user_id) THEN Result(db, "AccountBlocked")
       ELSE IF auction_id \notin DOMAIN db.auctions
            THEN Result(db, "NotFound")
       ELSE IF db.auctions[auction_id].status # "active"
            THEN Result(db, "AuctionNotActive")
       ELSE IF existing_bid = None THEN Result(db, "NoExistingStake")
       ELSE IF BidTooLow(offer_price, db.bids[existing_bid].offer_price)
            THEN Result(db, "BidMustIncrease")
       ELSE Result([db EXCEPT
                !.bids = update_bid_offer(@, existing_bid, offer_price),
                !.bookings = update_booking_offer(@,
                                 db.bids[existing_bid].booking_id,
                                 offer_price)], "ok")

place_bid(user_id, auction_id, offer_price) ==
    /\ Commit(PlaceBid(DB, user_id, auction_id, offer_price).db)
    /\ UNCHANGED procs

----------------------------------------------------------------------------
(* bookings.py: cancel_booking *)

\* lines 270-271: the penalty applies to a confirmed booking that starts in
\* less than 24 hours; late is hours_until_start < 24 on the server's clock
LatePenaltyApplies(booking, late) == late /\ booking.status = "confirmed"

\* lines 272-274: the penalty on the caller's trust score
Penalised(us, user_id) ==
    [us EXCEPT ![user_id].trust_score =
                  Max(0, @ - LATE_CANCEL_PENALTY * TrustUnit)]

\* cancel_booking without the status check of lines 258-262
CancelBooking_AnyStatus(db, user_id, booking_id, late) ==
    IF Blocked(db, user_id) THEN Result(db, "AccountBlocked")
    ELSE IF booking_id \notin DOMAIN db.bookings THEN Result(db, "NotFound")
    ELSE IF db.bookings[booking_id].user_id # user_id
         THEN Result(db, "Forbidden")
    ELSE Result([db EXCEPT
            !.users = IF LatePenaltyApplies(db.bookings[booking_id], late)
                      THEN Penalised(@, user_id)
                      ELSE @,
            !.bookings = update_booking_status(@, booking_id, "cancelled")],
            "ok")

\* cancel_booking also withdrawing the bids of the booking (offer set to 0)
CancelBooking_Withdraws(db, user_id, booking_id, late) ==
    IF Blocked(db, user_id) THEN Result(db, "AccountBlocked")
    ELSE IF booking_id \notin DOMAIN db.bookings THEN Result(db, "NotFound")
    ELSE IF db.bookings[booking_id].user_id # user_id
         THEN Result(db, "Forbidden")
    ELSE IF db.bookings[booking_id].status
                \notin {"pending", "competing", "confirmed"}
         THEN Result(db, "InvalidStateTransition")
    ELSE Result([db EXCEPT
            !.users = IF LatePenaltyApplies(db.bookings[booking_id], late)
                      THEN Penalised(@, user_id)
                      ELSE @,
            !.bids = [i \in DOMAIN @ |->
                        IF @[i].booking_id = booking_id
                        THEN [@[i] EXCEPT !.offer_price = 0]
                        ELSE @[i]],
            !.bookings = update_booking_status(@, booking_id, "cancelled")],
            "ok")

\* lines 240-279: the whole handler
CancelBooking(db, user_id, booking_id, late) ==
    IF Blocked(db, user_id) THEN Result(db, "AccountBlocked")
    ELSE IF booking_id \notin DOMAIN db.bookings THEN Result(db, "NotFound")
    ELSE IF db.bookings[booking_id].user_id # user_id
         THEN Result(db, "Forbidden")
    ELSE IF db.bookings[booking_id].status
                \notin {"pending", "competing", "confirmed"}
         THEN Result(db, "InvalidStateTransition")
    ELSE Result([db EXCEPT
            !.users = IF LatePenaltyApplies(db.bookings[booking_id], late)
                      THEN Penalised(@, user_id)
                      ELSE @,
            !.bookings = update_booking_status(@, booking_id, "cancelled")],
            "ok")

cancel_booking(user_id, booking_id, late) ==
    /\ Commit(CancelBooking(DB, user_id, booking_id, late).db)
    /\ UNCHANGED procs

----------------------------------------------------------------------------
(* admin.py: approve_booking, reject_booking *)

\* approve_booking accepting a competing booking as well
ApproveBooking_AlsoCompeting(db, booking_id) ==
    IF booking_id \notin DOMAIN db.bookings THEN Result(db, "NotFound")
    ELSE IF db.bookings[booking_id].status \notin {"pending", "competing"}
         THEN Result(db, "InvalidStateTransition")
    ELSE Result([db EXCEPT !.bookings =
                    update_booking_status(@, booking_id, "confirmed")], "ok")

\* lines 147-165: the whole handler
ApproveBooking(db, booking_id) ==
    IF booking_id \notin DOMAIN db.bookings THEN Result(db, "NotFound")
    ELSE IF db.bookings[booking_id].status # "pending"
         THEN Result(db, "InvalidStateTransition")
    ELSE Result([db EXCEPT !.bookings =
                    update_booking_status(@, booking_id, "confirmed")], "ok")

approve_booking(booking_id) ==
    /\ Commit(ApproveBooking(DB, booking_id).db)
    /\ UNCHANGED procs

\* lines 168-186: the whole handler
RejectBooking(db, booking_id) ==
    IF booking_id \notin DOMAIN db.bookings THEN Result(db, "NotFound")
    ELSE IF db.bookings[booking_id].status \notin {"pending", "competing"}
         THEN Result(db, "InvalidStateTransition")
    ELSE Result([db EXCEPT !.bookings =
                    update_booking_status(@, booking_id, "rejected")], "ok")

reject_booking(booking_id) ==
    /\ Commit(RejectBooking(DB, booking_id).db)
    /\ UNCHANGED procs

----------------------------------------------------------------------------
(* admin.py: start_ride, complete_ride, rate_ride *)

\* start_ride without the status check of lines 202-206
StartRide_AnyStatus(db, booking_id) ==
    IF booking_id \notin DOMAIN db.bookings THEN Result(db, "NotFound")
    ELSE IF get_ride_by_booking(db.rides, booking_id) # None
         THEN Result(db, "AlreadyStarted")
    ELSE Result([db EXCEPT
            !.rides = create_ride(@, booking_id),
            !.bookings = update_booking_status(@, booking_id, "active")],
            "ok")

\* lines 191-219: the whole handler
StartRide(db, booking_id) ==
    IF booking_id \notin DOMAIN db.bookings THEN Result(db, "NotFound")
    ELSE IF db.bookings[booking_id].status # "confirmed"
         THEN Result(db, "InvalidStateTransition")
    ELSE IF get_ride_by_booking(db.rides, booking_id) # None
         THEN Result(db, "AlreadyStarted")
    ELSE Result([db EXCEPT
            !.rides = create_ride(@, booking_id),
            !.bookings = update_booking_status(@, booking_id, "active")],
            "ok")

start_ride(booking_id) ==
    /\ Commit(StartRide(DB, booking_id).db)
    /\ UNCHANGED procs

\* complete_ride refusing only a ride that does not exist
CompleteRide_AnyStatus(db, ride_id) ==
    IF ride_id \notin DOMAIN db.rides THEN Result(db, "NotFound")
    ELSE Result([db EXCEPT
            !.rides[ride_id].status = "completed",
            !.bookings = update_booking_status(@,
                             db.rides[ride_id].booking_id, "completed")],
            "ok")

\* lines 222-247: the whole handler
CompleteRide(db, ride_id) ==
    IF ride_id \notin DOMAIN db.rides THEN Result(db, "NotFound")
    ELSE IF db.rides[ride_id].status # "active"
         THEN Result(db, "RideNotActive")
    ELSE Result([db EXCEPT
            !.rides[ride_id].status = "completed",
            !.bookings = update_booking_status(@,
                             db.rides[ride_id].booking_id, "completed")],
            "ok")

complete_ride(ride_id) ==
    /\ Commit(CompleteRide(DB, ride_id).db)
    /\ UNCHANGED procs

\* rate_ride's trust formula without the max(0, ...) of line 302
trust_score_of_Unclamped(rating_sum, total_rides, damage_count, rash_count) ==
    (20 * TrustUnit * rating_sum) \div total_rides
       + (TrustUnit \div 2) * total_rides
       - 15 * TrustUnit * damage_count
       - 10 * TrustUnit * rash_count

\* lines 296-302: max(0, new_avg * 20 + total_rides * 0.5
\*                       - damage_count * 15 - rash_count * 10)
\* in sixths of a point, with new_avg = rating_sum / total_rides
trust_score_of(rating_sum, total_rides, damage_count, rash_count) ==
    Max(0, (20 * TrustUnit * rating_sum) \div total_rides
           + (TrustUnit \div 2) * total_rides
           - 15 * TrustUnit * damage_count
           - 10 * TrustUnit * rash_count)

\* rate_ride adjusting the stored trust score instead of replacing it
Rated_Incremental(user, driving_rating, damage_flag, rash_flag) ==
    [user EXCEPT
       !.total_rides = @ + 1,
       !.rating_sum = @ + driving_rating,
       !.damage_count = @ + (IF damage_flag THEN 1 ELSE 0),
       !.rash_count = @ + (IF rash_flag THEN 1 ELSE 0),
       !.trust_score = Max(0, @ + 20 * TrustUnit * driving_rating
                                - (IF damage_flag THEN 15 * TrustUnit ELSE 0)
                                - (IF rash_flag THEN 10 * TrustUnit ELSE 0))]

\* lines 284-310: the counters, the average and the score of the user
\* (current_avg * (total_rides - 1) is the sum of the earlier ratings)
Rated(user, driving_rating, damage_flag, rash_flag) ==
    LET total_rides == user.total_rides + 1
        damage_count == user.damage_count + (IF damage_flag THEN 1 ELSE 0)
        rash_count == user.rash_count + (IF rash_flag THEN 1 ELSE 0)
        rating_sum == user.rating_sum + driving_rating
    IN [user EXCEPT
          !.total_rides = total_rides,
          !.rating_sum = rating_sum,
          !.damage_count = damage_count,
          !.rash_count = rash_count,
          !.trust_score = trust_score_of(rating_sum, total_rides,
                                         damage_count, rash_count)]

\* lines 250-312: the whole handler
RateRide(db, ride_id, driving_rating, damage_flag, rash_flag) ==
    IF ride_id \notin DOMAIN db.rides THEN Result(db, "NotFound")
    ELSE IF db.rides[ride_id].status # "completed"
         THEN Result(db, "RideNotCompleted")
    ELSE IF get_rating_by_ride(db.ratings, ride_id) # None
         THEN Result(db, "AlreadyRated")
    ELSE Result([db EXCEPT
            !.ratings = create_rating(@, ride_id, driving_rating,
                                      damage_flag, rash_flag),
            !.users[db.bookings[db.rides[ride_id].booking_id].user_id] =
                Rated(@, driving_rating, damage_flag, rash_flag)],
            "ok")

rate_ride(ride_id, driving_rating, damage_flag, rash_flag) ==
    /\ Commit(RateRide(DB, ride_id, driving_rating, damage_flag,
                       rash_flag).db)
    /\ UNCHANGED procs

----------------------------------------------------------------------------
(* admin.py: block_user, unblock_user *)

\* admin.py:339-348 with crud.block_user: update_one reports
\* modified_count 0 for a missing user and for one that is already blocked
BlockUser(db, user_id) ==
    IF user_id \notin DOMAIN db.users \/ db.users[user_id].is_blocked
    THEN Result(db, "NotFound")
    ELSE Result([db EXCEPT !.users[user_id].is_blocked = TRUE], "ok")

block_user(user_id) ==
    /\ Commit(BlockUser(DB, user_id).db)
    /\ UNCHANGED procs

\* admin.py:351-360 with crud.unblock_user
UnblockUser(db, user_id) ==
    IF user_id \notin DOMAIN db.users \/ ~db.users[user_id].is_blocked
    THEN Result(db, "NotFound")
    ELSE Result([db EXCEPT !.users[user_id].is_blocked = FALSE], "ok")

unblock_user(user_id) ==
    /\ Commit(UnblockUser(DB, user_id).db)
    /\ UNCHANGED procs

----------------------------------------------------------------------------
(* admin.py: update_car, delete_car *)

\* lines 92-106: update_car with {"is_active": is_active}; 404 for a car that
\* is not in the collection
UpdateCar(db, car_id, is_active) ==
    IF car_id \notin DOMAIN db.cars THEN Result(db, "NotFound")
    ELSE Result([db EXCEPT !.cars[car_id].is_active = is_active], "ok")

update_car(car_id, is_active) ==
    /\ Commit(UpdateCar(DB, car_id, is_active).db)
    /\ UNCHANGED procs

\* lines 109-118: delete_car removes the car document and nothing else
DeleteCar(db, car_id) ==
    IF car_id \notin DOMAIN db.cars THEN Result(db, "NotFound")
    ELSE Result([db EXCEPT !.cars = [c \in DOMAIN @ \ {car_id} |-> @[c]]], "ok")

delete_car(car_id) ==
    /\ Commit(DeleteCar(DB, car_id).db)
    /\ UNCHANGED procs

----------------------------------------------------------------------------
(* admin.py: close_auction *)

\* final_score with an additive trust bonus
final_score_Additive(offer_price, trust) ==
    100 * TrustUnit * offer_price + trust

\* lines 428-433: offer * (1 + trust / 100), in the unit 1 / (100 * TrustUnit)
final_score(offer_price, trust) == offer_price * (100 * TrustUnit + trust)

\* close_auction scoring with the bidder's current trust score
ScoreBids_LiveTrust(bd, auction_id) ==
    [i \in DOMAIN bd |->
        IF bd[i].auction_id = auction_id
        THEN [bd[i] EXCEPT !.final_score =
                 final_score(bd[i].offer_price,
                             users[bd[i].user_id].trust_score)]
        ELSE bd[i]]

\* lines 427-435: final_score written on every bid of the auction
ScoreBids(bd, auction_id) ==
    [i \in DOMAIN bd |->
        IF bd[i].auction_id = auction_id
        THEN [bd[i] EXCEPT !.final_score =
                 final_score(bd[i].offer_price, bd[i].trust_score_snapshot)]
        ELSE bd[i]]

\* lines 438-439: max() returns the first bid with the highest final_score
\* of the list sorted by offer_price descending, i.e. one with the highest
\* offer among those with the highest score; the order of bids with equal
\* offer_price in a MongoDB sort is unspecified, so each of them can be first
WinnerCandidates(bd, auction_id) ==
    LET ids == get_auction_bids(bd, auction_id)
        top == {i \in ids : \A j \in ids : bd[i].final_score >= bd[j].final_score}
    IN {i \in top : \A j \in top : bd[i].offer_price >= bd[j].offer_price}

\* close_auction's booking loop, without its else branch
SettleBookings_WinnerOnly(bk, bd, auction_id, winner_bid) ==
    [i \in DOMAIN bk |->
        IF i = bd[winner_bid].booking_id
        THEN [bk[i] EXCEPT !.status = "confirmed"]
        ELSE bk[i]]

\* lines 447-452: the winner's booking confirmed, the booking of every other
\* bid of the auction lost_auction
SettleBookings(bk, bd, auction_id, winner_bid) ==
    [i \in DOMAIN bk |->
        IF i = bd[winner_bid].booking_id
        THEN [bk[i] EXCEPT !.status = "confirmed"]
        ELSE IF \E j \in get_auction_bids(bd, auction_id) : bd[j].booking_id = i
        THEN [bk[i] EXCEPT !.status = "lost_auction"]
        ELSE bk[i]]

\* close_auction's status check, refusing only a cancelled auction
CloseRefused_CancelledOnly(auction) == auction.status = "cancelled"

\* line 414: an auction that is not active is not closed
CloseRefused(auction) == auction.status # "active"

\* lines 426-452: scores, winner and booking statuses for winner_bid
CloseWithWinner(db, auction_id, winner_bid) ==
    LET scored == ScoreBids(db.bids, auction_id)
    IN [db EXCEPT
          !.bids = scored,
          !.auctions = [@ EXCEPT
                ![auction_id].status = "closed",
                ![auction_id].winner_id = scored[winner_bid].user_id],
          !.bookings = SettleBookings(@, scored, auction_id, winner_bid)]

\* close_auction marking an auction without bids closed
CancelEmpty_Closed(db, auction_id) ==
    [db EXCEPT !.auctions[auction_id].status = "closed"]

\* lines 422-424: an auction without bids is cancelled, nothing else written
CancelEmpty(db, auction_id) ==
    [db EXCEPT !.auctions[auction_id].status = "cancelled"]

\* lines 403-459: the whole handler, as the set of its possible results
CloseAuction(db, auction_id) ==
    IF auction_id \notin DOMAIN db.auctions THEN {Result(db, "NotFound")}
    ELSE IF CloseRefused(db.auctions[auction_id])
         THEN {Result(db, "AuctionNotActive")}
    ELSE IF get_auction_bids(db.bids, auction_id) = {}
         THEN {Result(CancelEmpty(db, auction_id), "cancelled")}
    ELSE {Result(CloseWithWinner(db, auction_id, w), "ok") :
            w \in WinnerCandidates(ScoreBids(db.bids, auction_id), auction_id)}

close_auction(auction_id) ==
    /\ \E r \in CloseAuction(DB, auction_id) : Commit(r.db)
    /\ UNCHANGED procs

----------------------------------------------------------------------------
(* The handlers run one at a time *)

\* one handler call, with at most n bookings (and so n auctions) created
Handlers(n) ==
    \/ \E u \in Users, c \in Cars, s \in Times, e \in Times, p \in Prices :
          Len(bookings) < n /\ request_booking(u, c, s, e, p)
    \/ \E u \in Users, a \in 1 .. n, p \in BidPrices : place_bid(u, a, p)
    \/ \E u \in Users, b \in 1 .. n, late \in BOOLEAN :
          cancel_booking(u, b, late)
    \/ \E b \in 1 .. n : approve_booking(b)
    \/ \E b \in 1 .. n : reject_booking(b)
    \/ \E a \in 1 .. n : close_auction(a)

\* one call of a ride or user-management handler of the admin router
ServiceHandlers(n) ==
    \/ \E b \in 1 .. n : start_ride(b)
    \/ \E r \in 1 .. n : complete_ride(r)
    \/ \E r \in 1 .. n, g \in Ratings, d \in BOOLEAN, h \in BOOLEAN :
          rate_ride(r, g, d, h)
    \/ \E u \in Users : block_user(u)
    \/ \E u \in Users : unblock_user(u)

Next == Handlers(MaxBookings)

Spec == Init /\ [][Next]_vars

\* the same handlers with room for a third booking
NextContended == Handlers(MaxContenders)

SpecContended == Init /\ [][NextContended]_vars

\* all the handlers, one call at a time
NextService == Handlers(MaxBookings) \/ ServiceHandlers(MaxBookings)

SpecService == Init /\ [][NextService]_vars

\* the state a request of user_id for [1, 2) and its approval leave behind:
\* booking 1 is confirmed
ConfirmedStore(user_id) ==
    ApproveBooking(RequestBooking(SeedStore, user_id, 1, 1, 2, 5).db, 1).db

InitSnapshot == \E u \in Users : Holds(ConfirmedStore(u)) /\ procs = <<>>

\* the handlers that create, score or could touch a bid, one call at a time:
\* requests for the interval [0, 1) with room for two more bookings,
\* place_bid, cancel_booking, close_auction and the ride handlers up to
\* rate_ride
NextSnapshot ==
    \/ \E u \in Users, p \in Prices :
          Len(bookings) < MaxContenders /\ request_booking(u, 1, 0, 1, p)
    \/ \E u \in Users, a \in 1 .. MaxContenders, p \in BidPrices :
          place_bid(u, a, p)
    \/ \E u \in Users, b \in 1 .. MaxContenders, late \in BOOLEAN :
          cancel_booking(u, b, late)
    \/ \E a \in 1 .. MaxContenders : close_auction(a)
    \/ \E b \in 1 .. MaxContenders : start_ride(b)
    \/ \E r \in 1 .. MaxContenders : complete_ride(r)
    \/ \E r \in 1 .. MaxContenders, g \in Ratings, d \in BOOLEAN, h \in BOOLEAN :
          rate_ride(r, g, d, h)

SpecSnapshot == InitSnapshot /\ [][NextSnapshot]_vars

\* the handlers of Spec and the car management of the admin router
NextFleet ==
    \/ Handlers(MaxBookings)
    \/ \E c \in Cars, f \in BOOLEAN : update_car(c, f)
    \/ \E c \in Cars : delete_car(c)

SpecFleet == Init /\ [][NextFleet]_vars

\* the handlers that take a booking through an auction and a ride, one call
\* at a time, with room for a third booking
NextAuctionRide ==
    \/ \E u \in Users, c \in Cars, s \in Times, e \in Times, p \in Prices :
          Len(bookings) < MaxContenders /\ request_booking(u, c, s, e, p)
    \/ \E a \in 1 .. MaxContenders : close_auction(a)
    \/ \E b \in 1 .. MaxContenders : start_ride(b)
    \/ \E r \in 1 .. MaxContenders : complete_ride(r)

SpecAuctionRide == Init /\ [][NextAuctionRide]_vars

\* the database after register has run for each user on an empty database:
\* every user as crud.create_user makes it, with trust_score 50.00
RegisteredStore ==
    [SeedStore EXCEPT !.users =
        [u \in Users |-> [SeedStore.users[u] EXCEPT
                             !.trust_score = 50 * TrustUnit]]]

InitRegistered == Holds(RegisteredStore) /\ procs = <<>>

\* the handlers of Spec, called by users who all have the initial score
SpecRegistered == InitRegistered /\ [][Next]_vars

----------------------------------------------------------------------------
(* Handler calls in flight.  The handlers are plain "def" functions, which  *)
(* the server runs on worker threads; each call on the database (one crud  *)
(* function, one pymongo operation) is one step, and the steps of the      *)
(* calls in flight interleave.  procs[p] is the call of worker p: its      *)
(* arguments, its position pc (the database call it makes next, "returned" *)
(* or "raised") and its local variables.                                   *)

dbvars == <<users, cars, bookings, auctions, bids, rides, ratings>>

\* the state two requests for the same interval leave behind: auction 1 is
\* active with the bids of user 1 (booking 1) and user 2 (booking 2)
ContestedStore ==
    RequestBooking(RequestBooking(SeedStore, 1, 1, 0, 1, 5).db,
                   2, 1, 0, 1, 5).db

\* the unique index on bids (auction_id, user_id): insert_one raises
\* DuplicateKeyError, which no handler catches
DuplicateKey(bd, auction_id, user_id) ==
    \E i \in DOMAIN bd :
        bd[i].auction_id = auction_id /\ bd[i].user_id = user_id

\* where a handler goes once it has an outcome
After(response, pc) == IF response = "ok" THEN pc ELSE "raised"

----------------------------------------------------------------------------
(* request_booking, step by step *)

RequestCall(user_id, car_id, start_time, end_time, offer_price) ==
    [op |-> "request_booking", pc |-> "get_current_user",
     user_id |-> user_id, car_id |-> car_id, start_time |-> start_time,
     end_time |-> end_time, offer_price |-> offer_price,
     current_user |-> None, booking_id |-> None, conflicts |-> <<>>,
     k |-> 0, auction_id |-> None, conflict_trust |-> 0,
     response |-> "none"]

At(p, op, pc) == procs[p].op = op /\ procs[p].pc = pc

\* the position after the k-th pass of the loop over conflicts
AfterConflict(call) ==
    IF call.k + 1 > Len(call.conflicts) THEN "own_get_bid_by_user_auction"
    ELSE "get_bid_by_user_auction"

\* auth.py:70-80 and bookings.py:97-109: the user document is read, then
\* the interval and the eligibility are checked on it
rb_get_current_user(p) ==
    /\ At(p, "request_booking", "get_current_user")
    /\ LET call == procs[p]
           current_user == current_user_of(DB, call.user_id)
           response ==
               IF current_user.is_blocked THEN "AccountBlocked"
               ELSE IF call.start_time >= call.end_time
                    THEN "EndNotAfterStart"
               ELSE IF NotEligible(current_user) THEN "NotEligible"
               ELSE "ok"
       IN procs' = [procs EXCEPT ![p].current_user = current_user,
                                 ![p].response = response,
                                 ![p].pc = After(response, "get_car_by_id")]
    /\ UNCHANGED dbvars

\* bookings.py:111-117
rb_get_car_by_id(p) ==
    /\ At(p, "request_booking", "get_car_by_id")
    /\ LET response == IF CarUnavailable(cars, procs[p].car_id)
                       THEN "ResourceUnavailable" ELSE "ok"
       IN procs' = [procs EXCEPT ![p].response = response,
                                 ![p].pc = After(response, "get_all_bookings")]
    /\ UNCHANGED dbvars

\* bookings.py:119-134
rb_get_all_bookings(p) ==
    /\ At(p, "request_booking", "get_all_bookings")
    /\ LET call == procs[p]
           response == IF HardBlocked(bookings, call.car_id, call.start_time,
                                      call.end_time)
                       THEN "SlotUnavailable" ELSE "ok"
       IN procs' = [procs EXCEPT ![p].response = response,
                                 ![p].pc = After(response, "create_booking")]
    /\ UNCHANGED dbvars

\* bookings.py:136-143
rb_create_booking(p) ==
    /\ At(p, "request_booking", "create_booking")
    /\ LET call == procs[p]
       IN /\ bookings' = create_booking(bookings, call.current_user.id,
                                        call.car_id, call.start_time,
                                        call.end_time, call.offer_price)
          /\ procs' = [procs EXCEPT ![p].booking_id = Len(bookings) + 1,
                                    ![p].pc = "get_conflicting_bookings"]
    /\ UNCHANGED <<users, cars, auctions, bids, rides, ratings>>

\* bookings.py:145-154, and the return at line 208 when there is no conflict
rb_get_conflicting_bookings(p) ==
    /\ At(p, "request_booking", "get_conflicting_bookings")
    /\ LET call == procs[p]
           conflicts == get_conflicting_bookings(bookings, call.car_id,
                            call.start_time, call.end_time, call.booking_id)
       IN procs' = [procs EXCEPT
                      ![p].conflicts = conflicts,
                      ![p].pc = IF conflicts = <<>> THEN "returned"
                                ELSE "find_active_auction_for_car"]
    /\ UNCHANGED dbvars

\* bookings.py:155-162
rb_find_active_auction_for_car(p) ==
    /\ At(p, "request_booking", "find_active_auction_for_car")
    /\ LET call == procs[p]
           auction == find_active_auction_for_car(auctions, call.car_id,
                          call.start_time, call.end_time)
       IN procs' = [procs EXCEPT
                      ![p].auction_id = auction,
                      ![p].k = 1,
                      ![p].pc = IF auction = None THEN "create_auction"
                                ELSE "get_bid_by_user_auction"]
    /\ UNCHANGED dbvars

\* bookings.py:162-168
rb_create_auction(p) ==
    /\ At(p, "request_booking", "create_auction")
    /\ LET call == procs[p]
       IN /\ auctions' = create_auction(auctions, call.car_id,
                                        call.start_time, call.end_time)
          /\ procs' = [procs EXCEPT ![p].auction_id = Len(auctions) + 1,
                                    ![p].pc = "get_bid_by_user_auction"]
    /\ UNCHANGED <<users, cars, bookings, bids, rides, ratings>>

\* bookings.py:172-177: the lookup for conflicts[k]
rb_get_bid_by_user_auction(p) ==
    /\ At(p, "request_booking", "get_bid_by_user_auction")
    /\ LET call == procs[p]
           existing_bid == get_bid_by_user_auction(bids,
                               call.conflicts[call.k].user_id, call.auction_id)
       IN procs' = IF existing_bid = None
                   THEN [procs EXCEPT ![p].pc = "get_user_by_id"]
                   ELSE [procs EXCEPT ![p].k = @ + 1,
                                      ![p].pc = AfterConflict(call)]
    /\ UNCHANGED dbvars

\* bookings.py:179
rb_get_user_by_id(p) ==
    /\ At(p, "request_booking", "get_user_by_id")
    /\ procs' = [procs EXCEPT
           ![p].conflict_trust =
               users[procs[p].conflicts[procs[p].k].user_id].trust_score,
           ![p].pc = "create_bid"]
    /\ UNCHANGED dbvars

\* bookings.py:180-186
rb_create_bid(p) ==
    /\ At(p, "request_booking", "create_bid")
    /\ LET call == procs[p]
           conflict == call.conflicts[call.k]
           dup == DuplicateKey(bids, call.auction_id, conflict.user_id)
       IN /\ bids' = IF dup THEN bids
                     ELSE create_bid(bids, call.auction_id, conflict.user_id,
                                     conflict.id, conflict.offer_price,
                                     call.conflict_trust)
          /\ procs' = IF dup
                      THEN [procs EXCEPT ![p].response = "DuplicateKey",
                                         ![p].pc = "raised"]
                      ELSE [procs EXCEPT ![p].pc = "update_booking"]
    /\ UNCHANGED <<users, cars, bookings, auctions, rides, ratings>>

\* bookings.py:187
rb_update_booking(p) ==
    /\ At(p, "request_booking", "update_booking")
    /\ LET call == procs[p]
       IN /\ bookings' = update_booking_status(bookings,
                              call.conflicts[call.k].id, "competing")
          /\ procs' = [procs EXCEPT ![p].k = @ + 1,
                                    ![p].pc = AfterConflict(call)]
    /\ UNCHANGED <<users, cars, auctions, bids, rides, ratings>>

\* bookings.py:189-195
rb_own_get_bid_by_user_auction(p) ==
    /\ At(p, "request_booking", "own_get_bid_by_user_auction")
    /\ LET call == procs[p]
           existing_bid == get_bid_by_user_auction(bids, call.current_user.id,
                                                   call.auction_id)
       IN procs' = [procs EXCEPT
                      ![p].pc = IF existing_bid = None THEN "own_create_bid"
                                ELSE "own_update_booking"]
    /\ UNCHANGED dbvars

\* bookings.py:196-202
rb_own_create_bid(p) ==
    /\ At(p, "request_booking", "own_create_bid")
    /\ LET call == procs[p]
           dup == DuplicateKey(bids, call.auction_id, call.current_user.id)
       IN /\ bids' = IF dup THEN bids
                     ELSE create_bid(bids, call.auction_id,
                                     call.current_user.id, call.booking_id,
                                     call.offer_price,
                                     call.current_user.trust_score)
          /\ procs' = IF dup
                      THEN [procs EXCEPT ![p].response = "DuplicateKey",
                                         ![p].pc = "raised"]
                      ELSE [procs EXCEPT ![p].pc = "own_update_booking"]
    /\ UNCHANGED <<users, cars, bookings, auctions, rides, ratings>>

\* bookings.py:204-208
rb_own_update_booking(p) ==
    /\ At(p, "request_booking", "own_update_booking")
    /\ bookings' = update_booking_status(bookings, procs[p].booking_id,
                                         "competing")
    /\ procs' = [procs EXCEPT ![p].pc = "returned"]
    /\ UNCHANGED <<users, cars, auctions, bids, rides, ratings>>

\* two workers, each with one request_booking call, on the seeded database
RequestWorkers == {1, 2}

InitRequestRace ==
    /\ Holds(SeedStore)
    /\ procs \in [RequestWorkers ->
                    {RequestCall(u, c, s, e, o) :
                        u \in Users, c \in Cars, s \in Times, e \in Times,
                        o \in Prices}]

NextRequestRace ==
    \E p \in RequestWorkers :
        \/ rb_get_current_user(p)
        \/ rb_get_car_by_id(p)
        \/ rb_get_all_bookings(p)
        \/ rb_create_booking(p)
        \/ rb_get_conflicting_bookings(p)
        \/ rb_find_active_auction_for_car(p)
        \/ rb_create_auction(p)
        \/ rb_get_bid_by_user_auction(p)
        \/ rb_get_user_by_id(p)
        \/ rb_create_bid(p)
        \/ rb_update_booking(p)
        \/ rb_own_get_bid_by_user_auction(p)
        \/ rb_own_create_bid(p)
        \/ rb_own_update_booking(p)

SpecRequestRace == InitRequestRace /\ [][NextRequestRace]_vars

\* the two requests in flight, and close_auction calls that run between
\* their database calls
NextRequestClose ==
    \/ NextRequestRace
    \/ \E a \in RequestWorkers : close_auction(a)

SpecRequestClose == InitRequestRace /\ [][NextRequestClose]_vars

----------------------------------------------------------------------------
(* place_bid, step by step *)

PlaceBidCall(user_id, auction_id, offer_price) ==
    [op |-> "place_bid", pc |-> "get_current_user", user_id |-> user_id,
     auction_id |-> auction_id, offer_price |-> offer_price,
     existing_bid |-> None, response |-> "none"]

\* auth.py:70-80
pb_get_current_user(p) ==
    /\ At(p, "place_bid", "get_current_user")
    /\ LET response == IF Blocked(DB, procs[p].user_id)
                       THEN "AccountBlocked" ELSE "ok"
       IN procs' = [procs EXCEPT
                      ![p].response = response,
                      ![p].pc = After(response, "get_auction_by_id")]
    /\ UNCHANGED dbvars

\* auctions.py:100-109
pb_get_auction_by_id(p) ==
    /\ At(p, "place_bid", "get_auction_by_id")
    /\ LET a == procs[p].auction_id
           response == IF a \notin DOMAIN auctions THEN "NotFound"
                       ELSE IF auctions[a].status # "active"
                            THEN "AuctionNotActive"
                       ELSE "ok"
       IN procs' = [procs EXCEPT
                      ![p].response = response,
                      ![p].pc = After(response, "get_bid_by_user_auction")]
    /\ UNCHANGED dbvars

\* auctions.py:111-120 and 126-129: the bid document is read, and the new
\* offer is compared with the offer_price of the document read
pb_get_bid_by_user_auction(p) ==
    /\ At(p, "place_bid", "get_bid_by_user_auction")
    /\ LET call == procs[p]
           existing_bid == get_bid_by_user_auction(bids, call.user_id,
                                                   call.auction_id)
           response ==
               IF existing_bid = None THEN "NoExistingStake"
               ELSE IF BidTooLow(call.offer_price,
                                 bids[existing_bid].offer_price)
                    THEN "BidMustIncrease"
               ELSE "ok"
       IN procs' = [procs EXCEPT ![p].existing_bid = existing_bid,
                                 ![p].response = response,
                                 ![p].pc = After(response, "update_bid")]
    /\ UNCHANGED dbvars

\* auctions.py:121
pb_update_bid(p) ==
    /\ At(p, "place_bid", "update_bid")
    /\ bids' = update_bid_offer(bids, procs[p].existing_bid,
                                procs[p].offer_price)
    /\ procs' = [procs EXCEPT ![p].pc = "update_booking"]
    /\ UNCHANGED <<users, cars, bookings, auctions, rides, ratings>>

\* auctions.py:123-124 and the return at line 131
pb_update_booking(p) ==
    /\ At(p, "place_bid", "update_booking")
    /\ bookings' = update_booking_offer(bookings,
                       bids[procs[p].existing_bid].booking_id,
                       procs[p].offer_price)
    /\ procs' = [procs EXCEPT ![p].pc = "returned"]
    /\ UNCHANGED <<users, cars, auctions, bids, rides, ratings>>

\* two workers, each with one place_bid call, on an auction with two bids
\* at 5
BidWorkers == {1, 2}
RaceOffers == {5, 6, 7}

InitBidRace ==
    /\ Holds(ContestedStore)
    /\ procs \in [BidWorkers ->
                    {PlaceBidCall(u, a, o) :
                        u \in Users, a \in {1, 2}, o \in RaceOffers}]

NextBidRace ==
    \E p \in BidWorkers :
        \/ pb_get_current_user(p)
        \/ pb_get_auction_by_id(p)
        \/ pb_get_bid_by_user_auction(p)
        \/ pb_update_bid(p)
        \/ pb_update_booking(p)

SpecBidRace == InitBidRace /\ [][NextBidRace]_vars

----------------------------------------------------------------------------
(* cancel_booking, step by step *)

CancelCall(user_id, booking_id, late) ==
    [op |-> "cancel_booking", pc |-> "get_current_user", user_id |-> user_id,
     booking_id |-> booking_id, late |-> late, current_user |-> None,
     penalty |-> FALSE, response |-> "none"]

\* auth.py:70-80
cb_get_current_user(p) ==
    /\ At(p, "cancel_booking", "get_current_user")
    /\ LET current_user == current_user_of(DB, procs[p].user_id)
           response == IF current_user.is_blocked THEN "AccountBlocked" ELSE "ok"
       IN procs' = [procs EXCEPT
                      ![p].current_user = current_user,
                      ![p].response = response,
                      ![p].pc = After(response, "get_booking_by_id")]
    /\ UNCHANGED dbvars

\* bookings.py:247-271: the booking document is read; owner, status and
\* penalty are decided on the document read
cb_get_booking_by_id(p) ==
    /\ At(p, "cancel_booking", "get_booking_by_id")
    /\ LET call == procs[p]
           response == CancelBooking(DB, call.user_id, call.booking_id,
                                     call.late).response
           penalty == /\ response = "ok"
                      /\ LatePenaltyApplies(bookings[call.booking_id],
                                            call.late)
       IN procs' = [procs EXCEPT
                      ![p].response = response,
                      ![p].penalty = penalty,
                      ![p].pc = IF penalty THEN "update_user"
                                ELSE After(response, "update_booking")]
    /\ UNCHANGED dbvars

\* bookings.py:272-274: the score written is computed from the user
\* document read by get_current_user
cb_update_user(p) ==
    /\ At(p, "cancel_booking", "update_user")
    /\ users' = [users EXCEPT ![procs[p].user_id].trust_score =
                    Max(0, procs[p].current_user.trust_score
                              - LATE_CANCEL_PENALTY * TrustUnit)]
    /\ procs' = [procs EXCEPT ![p].pc = "update_booking"]
    /\ UNCHANGED <<cars, bookings, auctions, bids, rides, ratings>>

\* bookings.py:276-279
cb_update_booking(p) ==
    /\ At(p, "cancel_booking", "update_booking")
    /\ bookings' = update_booking_status(bookings, procs[p].booking_id,
                                         "cancelled")
    /\ procs' = [procs EXCEPT ![p].pc = "returned"]
    /\ UNCHANGED <<users, cars, auctions, bids, rides, ratings>>

----------------------------------------------------------------------------
(* close_auction, step by step *)

CloseCall(auction_id) ==
    [op |-> "close_auction", pc |-> "get_auction_by_id",
     auction_id |-> auction_id, bids |-> <<>>, k |-> 0,
     winner_bid |-> None, response |-> "none"]

\* crud.get_auction_bids: the auction's bid documents sorted by offer_price
\* descending (here: bids with equal offer_price in insertion order)
SortedBids(bd, auction_id) ==
    LET ids == get_auction_bids(bd, auction_id)
        order == CHOOSE s \in [1 .. Cardinality(ids) -> ids] :
                    \A i, j \in 1 .. Cardinality(ids) :
                        i < j => \/ bd[s[i]].offer_price > bd[s[j]].offer_price
                                 \/ /\ bd[s[i]].offer_price = bd[s[j]].offer_price
                                    /\ s[i] < s[j]
    IN [i \in 1 .. Cardinality(ids) |-> bd[order[i]]]

\* admin.py:410-418
cl_get_auction_by_id(p) ==
    /\ At(p, "close_auction", "get_auction_by_id")
    /\ LET a == procs[p].auction_id
           response == IF a \notin DOMAIN auctions THEN "NotFound"
                       ELSE IF CloseRefused(auctions[a])
                            THEN "AuctionNotActive"
                       ELSE "ok"
       IN procs' = [procs EXCEPT
                      ![p].response = response,
                      ![p].pc = After(response, "get_auction_bids")]
    /\ UNCHANGED dbvars

\* admin.py:421-422
cl_get_auction_bids(p) ==
    /\ At(p, "close_auction", "get_auction_bids")
    /\ LET found == SortedBids(bids, procs[p].auction_id)
       IN procs' = [procs EXCEPT
                      ![p].bids = found,
                      ![p].k = 1,
                      ![p].pc = IF found = <<>> THEN "update_auction"
                                ELSE "update_bid"]
    /\ UNCHANGED dbvars

\* admin.py:427-435: one pass of the scoring loop, on the documents read
cl_update_bid(p) ==
    /\ At(p, "close_auction", "update_bid")
    /\ LET call == procs[p]
           bid == call.bids[call.k]
       IN /\ bids' = [bids EXCEPT ![bid.id].final_score =
                         final_score(bid.offer_price,
                                     bid.trust_score_snapshot)]
          /\ procs' = [procs EXCEPT
                         ![p].k = @ + 1,
                         ![p].pc = IF call.k + 1 > Len(call.bids)
                                   THEN "refresh_auction_bids"
                                   ELSE "update_bid"]
    /\ UNCHANGED <<users, cars, bookings, auctions, rides, ratings>>

\* admin.py:438-439: the bids are read again and the winner is picked
cl_refresh_auction_bids(p) ==
    /\ At(p, "close_auction", "refresh_auction_bids")
    /\ \E winner_bid \in WinnerCandidates(bids, procs[p].auction_id) :
          procs' = [procs EXCEPT
                      ![p].bids = SortedBids(bids, procs[p].auction_id),
                      ![p].winner_bid = winner_bid,
                      ![p].pc = "update_auction"]
    /\ UNCHANGED dbvars

\* admin.py:423-424 (no bids: cancelled) and 442-445 (closed, with winner)
cl_update_auction(p) ==
    /\ At(p, "close_auction", "update_auction")
    /\ LET call == procs[p]
           a == call.auction_id
       IN IF call.bids = <<>>
          THEN /\ auctions' = [auctions EXCEPT ![a].status = "cancelled"]
               /\ procs' = [procs EXCEPT ![p].response = "cancelled",
                                         ![p].pc = "returned"]
          ELSE /\ auctions' = [auctions EXCEPT
                     ![a].status = "closed",
                     ![a].winner_id = bids[call.winner_bid].user_id]
               /\ procs' = [procs EXCEPT ![p].k = 1,
                                         ![p].pc = "update_booking"]
    /\ UNCHANGED <<users, cars, bookings, bids, rides, ratings>>

\* admin.py:448-459: one pass of the loop over the bids read at line 438
cl_update_booking(p) ==
    /\ At(p, "close_auction", "update_booking")
    /\ LET call == procs[p]
           bid == call.bids[call.k]
       IN /\ bookings' = update_booking_status(bookings, bid.booking_id,
                            IF bid.id = call.winner_bid THEN "confirmed"
                            ELSE "lost_auction")
          /\ procs' = [procs EXCEPT
                         ![p].k = @ + 1,
                         ![p].pc = IF call.k + 1 > Len(call.bids)
                                   THEN "returned" ELSE "update_booking"]
    /\ UNCHANGED <<users, cars, auctions, bids, rides, ratings>>

\* workers 1 and 2 each close auction 1; worker 3 raises a bid or cancels a
\* booking meanwhile
Closers == {1, 2}
Bystander == 3

InitCloseRace ==
    /\ Holds(ContestedStore)
    /\ \E call \in {PlaceBidCall(u, 1, o) : u \in Users, o \in RaceOffers}
              \cup {CancelCall(u, b, late) :
                       u \in Users, b \in {1, 2}, late \in BOOLEAN} :
          procs = [p \in Closers \cup {Bystander} |->
                      IF p \in Closers THEN CloseCall(1) ELSE call]

NextCloseRace ==
    \/ \E p \in Closers :
          \/ cl_get_auction_by_id(p)
          \/ cl_get_auction_bids(p)
          \/ cl_update_bid(p)
          \/ cl_refresh_auction_bids(p)
          \/ cl_update_auction(p)
          \/ cl_update_booking(p)
    \/ pb_get_current_user(Bystander)
    \/ pb_get_auction_by_id(Bystander)
    \/ pb_get_bid_by_user_auction(Bystander)
    \/ pb_update_bid(Bystander)
    \/ pb_update_booking(Bystander)
    \/ cb_get_current_user(Bystander)
    \/ cb_get_booking_by_id(Bystander)
    \/ cb_update_user(Bystander)
    \/ cb_update_booking(Bystander)

SpecCloseRace == InitCloseRace /\ [][NextCloseRace]_vars

----------------------------------------------------------------------------
(* Properties *)

\* a confirmed booking of the car overlaps [start_time, end_time)
ConfirmedOverlap(car_id, start_time, end_time) ==
    \E i \in DOMAIN bookings :
        /\ bookings[i].status = "confirmed"
        /\ bookings[i].car_id = car_id
        /\ bookings[i].start_time < end_time
        /\ start_time < bookings[i].end_time

\* a step in which booking b wins an auction: an active auction is closed
\* with a bid that links b, and the user of that bid as winner
WinsAuction(b) ==
    \E a \in DOMAIN auctions, i \in DOMAIN bids :
        /\ auctions[a].status = "active"
        /\ auctions'[a].status = "closed"
        /\ bids[i].auction_id = a
        /\ bids[i].booking_id = b
        /\ auctions'[a].winner_id = bids[i].user_id

\* C1: while a booking r1 of a car is confirmed, a step moves another
\* booking r2 of the car with an overlapping interval to confirmed only by
\* closing an auction that r2 wins (never by approve_booking)
C1_ConfirmedOnlyByAuction ==
    [][\A r1, r2 \in DOMAIN bookings :
          (/\ r1 # r2
           /\ bookings[r1].status = "confirmed"
           /\ bookings'[r1].status = "confirmed"
           /\ bookings[r1].car_id = bookings[r2].car_id
           /\ Overlaps(bookings[r1].start_time, bookings[r1].end_time,
                       bookings[r2].start_time, bookings[r2].end_time)
           /\ bookings[r2].status # "confirmed"
           /\ bookings'[r2].status = "confirmed")
          => WinsAuction(r2)]_vars

\* C2: for every auction, at most one of the bookings linked by the
\* auction's bids is confirmed
C2_OneConfirmedPerAuction ==
    \A i, j \in DOMAIN bids :
        (/\ bids[i].auction_id = bids[j].auction_id
         /\ bookings[bids[i].booking_id].status = "confirmed"
         /\ bookings[bids[j].booking_id].status = "confirmed")
        => bids[i].booking_id = bids[j].booking_id

\* C3: in every reachable state, a request_booking whose interval overlaps
\* a confirmed booking of the car leaves the database as it is (no booking,
\* no auction, no bid created); when it passes the gates that come first
\* (start < end, an eligible user, an active car) it fails with
\* SlotUnavailable.
C3_HardBlock ==
    \A u \in Users, c \in Cars, s \in Times, e \in Times, p \in Prices :
        ConfirmedOverlap(c, s, e) =>
            LET r == RequestBooking(DB, u, c, s, e, p)
            IN /\ r.db = DB
               /\ (s < e /\ ~NotEligible(users[u]) /\ ~CarUnavailable(cars, c))
                     => r.response = "SlotUnavailable"

\* C3 witness: a confirmed booking is in the store and an eligible user's
\* request for an interval that partly overlaps it is refused
C3_Witness ==
    \E u \in Users, c \in Cars, s \in Times, e \in Times, i \in DOMAIN bookings :
        /\ bookings[i].status = "confirmed"
        /\ bookings[i].car_id = c
        /\ s < bookings[i].end_time /\ bookings[i].start_time < e
        /\ <<s, e>> # <<bookings[i].start_time, bookings[i].end_time>>
        /\ RequestBooking(DB, u, c, s, e, 5).response = "SlotUnavailable"

\* C4: no two bids have the same auction and the same user
C4_OneBidPerUser ==
    \A i, j \in DOMAIN bids :
        (bids[i].auction_id = bids[j].auction_id
            /\ bids[i].user_id = bids[j].user_id) => i = j

\* C4 witness: a user with a bid in an active auction requested the
\* contested interval again; the second booking is competing and no bid
\* links it
C4_Witness ==
    \E b \in DOMAIN bookings, i \in DOMAIN bids :
        /\ bookings[b].status = "competing"
        /\ \A j \in DOMAIN bids : bids[j].booking_id # b
        /\ bids[i].user_id = bookings[b].user_id
        /\ auctions[bids[i].auction_id].status = "active"
        /\ Overlaps(auctions[bids[i].auction_id].start_time,
                    auctions[bids[i].auction_id].end_time,
                    bookings[b].start_time, bookings[b].end_time)

\* a place_bid that does not raise the stored offer of the caller's bid in
\* an active auction fails with BidMustIncrease and changes nothing
BidRefused ==
    \A u \in Users, a \in DOMAIN auctions, p \in BidPrices, i \in DOMAIN bids :
        (/\ auctions[a].status = "active"
         /\ bids[i].auction_id = a
         /\ bids[i].user_id = u
         /\ p <= bids[i].offer_price)
        => PlaceBid(DB, u, a, p) = Result(DB, "BidMustIncrease")

\* no step removes a bid, moves it to another auction or user, or lowers
\* its offer
OfferNeverLowered ==
    \A i \in DOMAIN bids :
        /\ i \in DOMAIN bids'
        /\ bids'[i].auction_id = bids[i].auction_id
        /\ bids'[i].user_id = bids[i].user_id
        /\ bids'[i].offer_price >= bids[i].offer_price

\* C6: for every (auction, user) the stored offer never decreases, and a
\* place_bid with an offer less than or equal to the stored one fails with
\* BidMustIncrease and leaves the bid, its booking and the rest of the
\* database unchanged
C6_OfferMonotone == [](BidRefused) /\ [][OfferNeverLowered]_vars

\* C5: under every interleaving of two request_booking calls, no two
\* active auctions of a car have overlapping intervals, and no two bids have
\* the same auction and the same user
C5_OneAuctionOneBid ==
    /\ \A a, b \in DOMAIN auctions :
          (/\ auctions[a].status = "active"
           /\ auctions[b].status = "active"
           /\ auctions[a].car_id = auctions[b].car_id
           /\ Overlaps(auctions[a].start_time, auctions[a].end_time,
                       auctions[b].start_time, auctions[b].end_time))
          => a = b
    /\ \A i, j \in DOMAIN bids :
          (bids[i].auction_id = bids[j].auction_id
              /\ bids[i].user_id = bids[j].user_id) => i = j

\* C6 witness: a bid was raised above the price it was created with, and
\* offering that price again is refused
C6_Witness ==
    \E i \in DOMAIN bids :
        /\ bids[i].offer_price > bookings[1].offer_price
        /\ auctions[bids[i].auction_id].status = "active"
        /\ PlaceBid(DB, bids[i].user_id, bids[i].auction_id,
                    bids[i].offer_price).response = "BidMustIncrease"

\* C7: under every interleaving of two place_bid calls, no step lowers the
\* stored offer of a bid
C7_RaiseIsAtomic == [][OfferNeverLowered]_vars

\* C8: close_auction on an auction that is closed or cancelled fails with
\* AuctionNotActive and changes nothing (winner, final scores and booking
\* statuses stay as the close left them)
C8_CloseTwice ==
    \A a \in DOMAIN auctions :
        auctions[a].status \in {"closed", "cancelled"}
        => CloseAuction(DB, a) = {Result(DB, "AuctionNotActive")}

\* C8 witness: an auction is closed with a winner and scored bids
C8_Witness ==
    \E a \in DOMAIN auctions :
        /\ auctions[a].status = "closed"
        /\ auctions[a].winner_id # None
        /\ \E i \in DOMAIN bids :
              bids[i].auction_id = a /\ bids[i].final_score # NoScore
        /\ \E r \in CloseAuction(DB, a) : r.response = "AuctionNotActive"

\* C9: of two close_auction calls on the same auction that have both
\* finished, exactly one performed the close and the other was refused
\* with AuctionNotActive
C9_OneCloser ==
    \A p, q \in DOMAIN procs :
        (/\ p # q
         /\ procs[p].op = "close_auction"
         /\ procs[q].op = "close_auction"
         /\ procs[p].auction_id = procs[q].auction_id
         /\ procs[p].pc = "returned"
         /\ procs[q].pc \in {"returned", "raised"})
        => procs[q].response = "AuctionNotActive"

\* C10: in every reachable state, close_auction on an active auction with
\* at least one bid writes offer_price * (100 * TrustUnit +
\* trust_score_snapshot) (the final score in its stored unit) on every bid
\* of the auction and records as
\* winner the user of a bid whose final score is the highest of the auction
C10_ScoreAndWinner ==
    \A a \in DOMAIN auctions :
        (auctions[a].status = "active"
            /\ \E i \in DOMAIN bids : bids[i].auction_id = a)
        => \A r \in CloseAuction(DB, a) :
              /\ r.response = "ok"
              /\ \A i \in DOMAIN bids :
                    bids[i].auction_id = a =>
                       r.db.bids[i].final_score = bids[i].offer_price
                             * (100 * TrustUnit + bids[i].trust_score_snapshot)
              /\ \E w \in DOMAIN bids :
                    /\ bids[w].auction_id = a
                    /\ r.db.auctions[a].winner_id = bids[w].user_id
                    /\ \A j \in DOMAIN bids :
                          bids[j].auction_id = a =>
                             bids[w].offer_price
                                   * (100 * TrustUnit + bids[w].trust_score_snapshot)
                                >= bids[j].offer_price
                                   * (100 * TrustUnit + bids[j].trust_score_snapshot)

\* C10 witness: a closed auction whose winner offered less than another
\* bidder of the auction
C10_Witness ==
    \E a \in DOMAIN auctions, i, j \in DOMAIN bids :
        /\ auctions[a].status = "closed"
        /\ bids[i].auction_id = a /\ bids[j].auction_id = a
        /\ auctions[a].winner_id = bids[i].user_id
        /\ bids[i].offer_price < bids[j].offer_price
        /\ bids[i].final_score > bids[j].final_score

\* C11: in every reachable state, a close_auction that succeeds on an auction
\* with at least one bid leaves the auction closed with a winner id, the
\* booking linked by the winning bid confirmed, and the booking linked by
\* every other bid of the auction lost_auction
C11_CloseSettles ==
    \A a \in DOMAIN auctions :
        \A r \in CloseAuction(DB, a) :
            r.response = "ok" =>
               /\ r.db.auctions[a].status = "closed"
               /\ r.db.auctions[a].winner_id # None
               /\ \E w \in get_auction_bids(bids, a) :
                     /\ r.db.auctions[a].winner_id = bids[w].user_id
                     /\ r.db.bookings[bids[w].booking_id].status = "confirmed"
                     /\ \A j \in get_auction_bids(bids, a) \ {w} :
                           r.db.bookings[bids[j].booking_id].status
                              = "lost_auction"

\* C11 witness: a closed auction with a winner, one of its bids linking a
\* confirmed booking and another a lost_auction booking
C11_Witness ==
    \E a \in DOMAIN auctions :
        /\ auctions[a].status = "closed"
        /\ auctions[a].winner_id # None
        /\ \E i, j \in get_auction_bids(bids, a) :
              /\ bids[i].user_id = auctions[a].winner_id
              /\ bookings[bids[i].booking_id].status = "confirmed"
              /\ bookings[bids[j].booking_id].status = "lost_auction"


\* the status changes of a booking listed by the lifecycle: pending to
\* competing, rejected or cancelled; competing to confirmed, lost_auction or
\* cancelled; confirmed to active, cancelled or completed; active to completed
StatusEdges ==
    {<<"pending", "competing">>, <<"pending", "rejected">>,
     <<"pending", "cancelled">>, <<"competing", "confirmed">>,
     <<"competing", "lost_auction">>, <<"competing", "cancelled">>,
     <<"confirmed", "active">>, <<"confirmed", "cancelled">>,
     <<"confirmed", "completed">>, <<"active", "completed">>}

\* C12: every step that changes the status of a booking follows one of the
\* edges pending -> {competing, rejected, cancelled}, competing ->
\* {confirmed, lost_auction, cancelled}, confirmed -> {active, cancelled,
\* completed}, active -> completed
C12_StatusEdges ==
    [][\A b \in DOMAIN bookings :
          bookings'[b].status # bookings[b].status
             => <<bookings[b].status, bookings'[b].status>> \in StatusEdges]_vars


\* C13: in every reachable state, a request_booking or place_bid by a user
\* who is blocked or whose trust score is below AUTO_REJECT_THRESHOLD is
\* refused and leaves every booking and every bid as it is
C13_IneligibleRefused ==
    \A u \in Users :
        NotEligible(users[u]) =>
           /\ \A c \in Cars, s \in Times, e \in Times, p \in Prices :
                 LET r == RequestBooking(DB, u, c, s, e, p)
                 IN /\ r.response # "ok"
                    /\ r.db.bookings = bookings
                    /\ r.db.bids = bids
           /\ \A a \in DOMAIN auctions, p \in BidPrices :
                 LET r == PlaceBid(DB, u, a, p)
                 IN /\ r.response # "ok"
                    /\ r.db.bookings = bookings
                    /\ r.db.bids = bids


\* the outcome of place_bid for an authenticated caller on an auction that
\* is not active, and on an active auction in which the caller has no bid
StakeRequired ==
    \A u \in Users, a \in DOMAIN auctions, p \in BidPrices :
        LET r == PlaceBid(DB, u, a, p)
        IN /\ (~Blocked(DB, u) /\ auctions[a].status # "active")
                => r = Result(DB, "AuctionNotActive")
           /\ (~Blocked(DB, u) /\ auctions[a].status = "active"
                  /\ get_bid_by_user_auction(bids, u, a) = None)
                => r = Result(DB, "NoExistingStake")

\* a step that adds a bid also adds a booking: it is a request_booking
BidsOnlyByRequest ==
    Len(bids') # Len(bids) =>
       /\ Len(bids') > Len(bids)
       /\ Len(bookings') = Len(bookings) + 1

\* C14: place_bid on an auction that is not active fails with
\* AuctionNotActive, and place_bid on an active auction by a user who has no
\* bid in it fails with NoExistingStake; in both cases the database is left
\* as it is, and the number of bids changes only in a step that creates a
\* booking (request_booking)
C14_NoAdHocBid == [](StakeRequired) /\ [][BidsOnlyByRequest]_vars

\* C14 witness: an active auction and a user without a bid in it, whose
\* place_bid is refused with NoExistingStake
C14_Witness ==
    \E u \in Users, a \in DOMAIN auctions :
        /\ auctions[a].status = "active"
        /\ get_bid_by_user_auction(bids, u, a) = None
        /\ \A p \in BidPrices :
              PlaceBid(DB, u, a, p) = Result(DB, "NoExistingStake")


\* the score of bid i by its trust snapshot, and by its bidder's trust score
\* as stored now (both in the unit of final_score)
SnapshotScore(i) ==
    bids[i].offer_price * (100 * TrustUnit + bids[i].trust_score_snapshot)

LiveScore(i) ==
    bids[i].offer_price
       * (100 * TrustUnit + users[bids[i].user_id].trust_score)

\* a step keeps every bid and its trust snapshot, and a bid it creates has
\* the stored trust score of its bidder as snapshot
SnapshotFixed ==
    /\ \A i \in DOMAIN bids :
          /\ i \in DOMAIN bids'
          /\ bids'[i].trust_score_snapshot = bids[i].trust_score_snapshot
    /\ \A i \in DOMAIN bids' \ DOMAIN bids :
          bids'[i].trust_score_snapshot
             = users[bids'[i].user_id].trust_score

\* close_auction on an active auction with bids scores every bid by its
\* snapshot and records a winner whose snapshot score is the highest
ScoredBySnapshot ==
    \A a \in DOMAIN auctions :
        (auctions[a].status = "active" /\ get_auction_bids(bids, a) # {})
        => \A r \in CloseAuction(DB, a) :
              /\ \A i \in get_auction_bids(bids, a) :
                    r.db.bids[i].final_score = SnapshotScore(i)
              /\ \E w \in get_auction_bids(bids, a) :
                    /\ r.db.auctions[a].winner_id = bids[w].user_id
                    /\ \A j \in get_auction_bids(bids, a) :
                          SnapshotScore(w) >= SnapshotScore(j)

\* C15: a bid's trust snapshot is the bidder's stored trust score when the
\* bid is created and no later step (place_bid, cancel_booking, rate_ride,
\* close_auction) changes it; close_auction scores with the snapshot, also
\* when the bidder's stored trust score has changed since
C15_SnapshotFixed == [](ScoredBySnapshot) /\ [][SnapshotFixed]_vars

\* C15 witness: an active auction with two bids that the snapshots rank one
\* way and the bidders' current trust scores the other way
C15_Witness ==
    \E a \in DOMAIN auctions :
        /\ auctions[a].status = "active"
        /\ \E i, j \in get_auction_bids(bids, a) :
              /\ SnapshotScore(i) > SnapshotScore(j)
              /\ LiveScore(i) < LiveScore(j)


\* C16: in every reachable state, close_auction on an active auction that
\* has no bid returns without error, sets the auction cancelled, leaves its
\* winner id empty and changes no booking, no bid and nothing else
C16_EmptyAuctionCancelled ==
    \A a \in DOMAIN auctions :
        (auctions[a].status = "active" /\ get_auction_bids(bids, a) = {})
        => \A r \in CloseAuction(DB, a) :
              /\ r.response = "cancelled"
              /\ r.db.auctions[a].status = "cancelled"
              /\ r.db.auctions[a].winner_id = None
              /\ r.db.bookings = bookings
              /\ r.db.bids = bids
              /\ r.db = [DB EXCEPT !.auctions[a].status = "cancelled"]

\* C16 witness: an auction without bids that a close_auction has cancelled,
\* with no winner
C16_Witness ==
    \E a \in DOMAIN auctions :
        /\ auctions[a].status = "cancelled"
        /\ auctions[a].winner_id = None
        /\ get_auction_bids(bids, a) = {}


\* a permitted cancel_booking changes the caller's trust score exactly when
\* the booking is confirmed and starts in less than 24 hours, and then to
\* the score less LATE_CANCEL_PENALTY, or to 0 if that is negative; no
\* other user's score changes
PenaltyIffLateConfirmed ==
    \A u \in Users, b \in DOMAIN bookings, late \in BOOLEAN :
        LET r == CancelBooking(DB, u, b, late)
            reduced == users[u].trust_score - LATE_CANCEL_PENALTY * TrustUnit
        IN r.response = "ok" =>
              /\ r.db.users[u].trust_score =
                    IF late /\ bookings[b].status = "confirmed"
                    THEN (IF reduced < 0 THEN 0 ELSE reduced)
                    ELSE users[u].trust_score
              /\ \A v \in Users \ {u} : r.db.users[v] = users[v]

\* with no ride rated, a user's trust score is the seeded one less at most
\* one penalty for each booking of the user
PenaltyOncePerBooking ==
    \A u \in Users :
        users[u].total_rides = 0 =>
           users[u].trust_score >=
              InitTrust[u] * TrustUnit
                 - LATE_CANCEL_PENALTY * TrustUnit
                      * Cardinality({b \in DOMAIN bookings :
                                        bookings[b].user_id = u})

\* C17: cancel_booking subtracts LATE_CANCEL_PENALTY from the owner's trust
\* score, clamped at 0, if and only if the booking was confirmed and starts
\* in less than 24 hours; every other permitted cancel leaves the trust
\* score as it is; and the cancellations of one booking apply the penalty
\* at most once
C17_LatePenaltyOnce == PenaltyIffLateConfirmed /\ PenaltyOncePerBooking


\* C18: every user's trust score is at least 0 in every reachable state,
\* whatever ratings, damage and rash flags rate_ride was given and however
\* many late cancellations were penalised
C18_TrustNonNegative == \A u \in Users : users[u].trust_score >= 0

\* C18 witness: a rated user whose ratings and flags put the trust formula
\* below 0, with trust score 0
C18_Witness ==
    \E u \in Users :
        /\ users[u].total_rides > 0
        /\ 20 * TrustUnit * users[u].rating_sum
              + (TrustUnit \div 2) * users[u].total_rides * users[u].total_rides
              - 15 * TrustUnit * users[u].damage_count * users[u].total_rides
              - 10 * TrustUnit * users[u].rash_count * users[u].total_rides
              < 0
        /\ users[u].trust_score = 0


\* one step of the life of the auctions: a status changes only from active
\* to closed or cancelled, and an auction that is closed or cancelled keeps
\* its status, winner id and interval, gets no new bid and keeps the offer
\* of each of its bids
AuctionSettled ==
    \A a \in DOMAIN auctions :
        /\ a \in DOMAIN auctions'
        /\ auctions'[a].status # auctions[a].status
              => /\ auctions[a].status = "active"
                 /\ auctions'[a].status \in {"closed", "cancelled"}
        /\ auctions[a].status # "active"
              => /\ auctions'[a].status = auctions[a].status
                 /\ auctions'[a].winner_id = auctions[a].winner_id
                 /\ auctions'[a].start_time = auctions[a].start_time
                 /\ auctions'[a].end_time = auctions[a].end_time
                 /\ \A i \in DOMAIN bids' :
                       bids'[i].auction_id = a
                          => /\ i \in DOMAIN bids
                             /\ bids'[i].offer_price = bids[i].offer_price

\* C19: an auction's status only moves from active to closed or to
\* cancelled, at most once; once it is closed or cancelled its status,
\* winner id and contested interval never change, no bid of it is created
\* and no bid of it has its offer changed
C19_AuctionSettled == [][AuctionSettled]_vars


\* booking i of the car has one of the statuses and its interval shares a
\* point with [s, e), both read as half-open
HalfOpenHit(i, car_id, statuses, s, e) ==
    /\ bookings[i].car_id = car_id
    /\ bookings[i].status \in statuses
    /\ bookings[i].start_time < e
    /\ s < bookings[i].end_time

\* C20: the overlap test is symmetric, and false for intervals that only
\* touch; a well-formed request of an eligible user for an active car is
\* refused with SlotUnavailable exactly when a confirmed booking of the car
\* overlaps it as half-open intervals ([s1,e1) and [s2,e2) overlap iff
\* s1 < e2 and s2 < e1), and otherwise its booking is put in contention
\* exactly when a pending or competing booking of the car overlaps it so
C20_HalfOpenOverlap ==
    /\ \A s1 \in Times, e1 \in Times, s2 \in Times, e2 \in Times :
          /\ Overlaps(s1, e1, s2, e2) = Overlaps(s2, e2, s1, e1)
          /\ Overlaps(s1, e1, s2, e2) = (s1 < e2 /\ s2 < e1)
          /\ (s1 < e1 /\ e1 = s2 /\ s2 < e2) => ~Overlaps(s1, e1, s2, e2)
    /\ \A u \in Users, c \in Cars, s \in Times, e \in Times, p \in Prices :
          (s < e /\ ~Blocked(DB, u) /\ ~NotEligible(users[u])
             /\ ~CarUnavailable(cars, c))
          => LET r == RequestBooking(DB, u, c, s, e, p)
                 hard == \E i \in DOMAIN bookings :
                            HalfOpenHit(i, c, {"confirmed"}, s, e)
                 soft == \E i \in DOMAIN bookings :
                            HalfOpenHit(i, c, {"pending", "competing"}, s, e)
             IN /\ hard <=> r.response = "SlotUnavailable"
                /\ ~hard =>
                      /\ r.response = "ok"
                      /\ r.db.bookings[Len(bookings) + 1].status =
                            (IF soft THEN "competing" ELSE "pending")

\* C20 witness: a confirmed booking whose interval ends where a request's
\* interval starts, or starts where it ends; the request is accepted and
\* its booking stays pending
C20_Witness ==
    \E i \in DOMAIN bookings, u \in Users, s \in Times, e \in Times :
        /\ s < e
        /\ bookings[i].status = "confirmed"
        /\ bookings[i].end_time = s \/ bookings[i].start_time = e
        /\ LET r == RequestBooking(DB, u, bookings[i].car_id, s, e, 5)
           IN /\ r.response = "ok"
              /\ r.db.bookings[Len(bookings) + 1].status = "pending"

\* C21: in every reachable state, a request_booking that succeeds leaves
\* its booking pending and creates no auction and no bid when no pending or
\* competing booking of the car overlaps it; otherwise the new booking and
\* every overlapping pending or competing booking are competing, and each
\* of them is the booking of a bid of one and the same active auction
C21_EscalationLinksAll ==
    \A u \in Users, c \in Cars, s \in Times, e \in Times, p \in Prices :
        LET r == RequestBooking(DB, u, c, s, e, p)
            new == Len(bookings) + 1
            conflicts == {i \in DOMAIN bookings :
                            HalfOpenHit(i, c, {"pending", "competing"}, s, e)}
        IN r.response = "ok" =>
              IF conflicts = {}
              THEN /\ r.db.bookings[new].status = "pending"
                   /\ r.db.auctions = auctions
                   /\ r.db.bids = bids
              ELSE \E a \in DOMAIN r.db.auctions :
                      /\ r.db.auctions[a].status = "active"
                      /\ \A b \in conflicts \cup {new} :
                            /\ r.db.bookings[b].status = "competing"
                            /\ \E i \in DOMAIN r.db.bids :
                                  /\ r.db.bids[i].auction_id = a
                                  /\ r.db.bids[i].booking_id = b

\* no two active auctions of one car have intervals that overlap
ActiveAuctionsDisjoint(au) ==
    \A a, b \in DOMAIN au :
        (a # b /\ au[a].status = "active" /\ au[b].status = "active"
           /\ au[a].car_id = au[b].car_id)
        => ~(au[a].start_time < au[b].end_time
               /\ au[b].start_time < au[a].end_time)

\* C22: with the handlers run one at a time, no two active auctions of the
\* same car have overlapping intervals, in the state and after any further
\* request_booking; a request whose interval intersects an active auction
\* of the car creates no auction
C22_OneActiveAuctionPerWindow ==
    /\ ActiveAuctionsDisjoint(auctions)
    /\ \A u \in Users, c \in Cars, s \in Times, e \in Times, p \in Prices :
          LET r == RequestBooking(DB, u, c, s, e, p)
          IN /\ ActiveAuctionsDisjoint(r.db.auctions)
             /\ (\E a \in DOMAIN auctions :
                    /\ auctions[a].status = "active"
                    /\ auctions[a].car_id = c
                    /\ auctions[a].start_time < e
                    /\ s < auctions[a].end_time)
                => r.db.auctions = auctions

\* C22 witness: an active auction, and a request that succeeds and for
\* which a second active auction of the same car is created beside it
C22_Witness ==
    \E u \in Users, c \in Cars, s \in Times, e \in Times, p \in Prices :
        LET r == RequestBooking(DB, u, c, s, e, p)
        IN /\ r.response = "ok"
           /\ Len(r.db.auctions) = Len(auctions) + 1
           /\ \E a \in DOMAIN auctions :
                 /\ auctions[a].status = "active"
                 /\ auctions[a].car_id = c
                 /\ r.db.auctions[a].status = "active"

\* C23: in every reachable state each booking is the booking of at most
\* one bid, over all auctions, and of at most one ride
C23_OneBidOneRidePerBooking ==
    /\ \A i, j \in DOMAIN bids :
          bids[i].booking_id = bids[j].booking_id => i = j
    /\ \A i, j \in DOMAIN rides :
          rides[i].booking_id = rides[j].booking_id => i = j

\* booking b has a ride
HasRide(b) == \E i \in DOMAIN rides : rides[i].booking_id = b

\* start_ride on a confirmed booking without a ride succeeds, appends one
\* active ride of the booking, sets the booking active and changes nothing
\* else; on a booking in any other status it fails and changes nothing; and
\* no booking has two rides
StartsOnlyConfirmed ==
    /\ \A b \in DOMAIN bookings :
          LET r == StartRide(DB, b)
          IN /\ (bookings[b].status = "confirmed" /\ ~HasRide(b))
                  => /\ r.response = "ok"
                     /\ r.db = [DB EXCEPT
                           !.rides = Append(rides,
                                        [id |-> Len(rides) + 1,
                                         booking_id |-> b,
                                         status |-> "active"]),
                           !.bookings[b].status = "active"]
             /\ bookings[b].status # "confirmed"
                  => /\ r.response # "ok"
                     /\ r.db = DB
    /\ \A i, j \in DOMAIN rides :
          rides[i].booking_id = rides[j].booking_id => i = j

\* C24, as stated: start_ride succeeds only on a confirmed booking without
\* a ride, creating an active ride and setting the booking active; from any
\* other status it fails and changes nothing; whenever the booking has a
\* ride it fails with AlreadyStarted; and no booking has two rides
C24_AlreadyStartedAlways ==
    /\ StartsOnlyConfirmed
    /\ \A b \in DOMAIN bookings :
          HasRide(b) => StartRide(DB, b) = Result(DB, "AlreadyStarted")

\* C24, amended: as above, but the status is checked first: a booking that
\* is not confirmed is refused with InvalidStateTransition whether or not
\* it has a ride, and AlreadyStarted is the error only for a confirmed
\* booking that has a ride
C24_StartRide ==
    /\ StartsOnlyConfirmed
    /\ \A b \in DOMAIN bookings :
          /\ bookings[b].status # "confirmed"
                => StartRide(DB, b) = Result(DB, "InvalidStateTransition")
          /\ (bookings[b].status = "confirmed" /\ HasRide(b))
                => StartRide(DB, b) = Result(DB, "AlreadyStarted")

\* C24 witness: a booking with a ride, active or completed, on which a
\* second start_ride is refused with InvalidStateTransition
C24_Witness ==
    \E b \in DOMAIN bookings :
        /\ HasRide(b)
        /\ bookings[b].status \in {"active", "completed"}
        /\ StartRide(DB, b) = Result(DB, "InvalidStateTransition")

\* C25: complete_ride on an active ride succeeds, sets the ride completed
\* and its booking completed and changes nothing else; on a ride that is
\* not active, a completed one in particular, it fails and changes nothing
C25_CompleteOnce ==
    \A i \in DOMAIN rides :
        LET r == CompleteRide(DB, i)
        IN /\ rides[i].status = "active"
                => /\ r.response = "ok"
                   /\ r.db = [DB EXCEPT
                         !.rides[i].status = "completed",
                         !.bookings[rides[i].booking_id].status = "completed"]
                   /\ CompleteRide(r.db, i) = Result(r.db, "RideNotActive")
           /\ rides[i].status # "active"
                => r = Result(DB, "RideNotActive")

\* C25 witness: a completed ride with a completed booking, on which
\* complete_ride is refused
C25_Witness ==
    \E i \in DOMAIN rides :
        /\ rides[i].status = "completed"
        /\ bookings[rides[i].booking_id].status = "completed"
        /\ CompleteRide(DB, i) = Result(DB, "RideNotActive")

\* ride i has a rating
IsRated(i) == \E k \in DOMAIN ratings : ratings[k].ride_id = i

\* the user of the booking of ride i
RideOwner(i) == bookings[rides[i].booking_id].user_id

\* C26: rate_ride succeeds exactly on a completed ride without a rating,
\* adding one rating and one to the owner's total_rides; on a ride that has
\* a rating it fails with AlreadyRated and changes nothing (no rating, no
\* counter, no trust score); so each ride has at most one rating and each
\* user's total_rides is the number of that user's rated rides
C26_RatedOnce ==
    /\ \A i \in DOMAIN rides, g \in Ratings, d \in BOOLEAN, h \in BOOLEAN :
          LET r == RateRide(DB, i, g, d, h)
          IN /\ r.response = "ok"
                  <=> (rides[i].status = "completed" /\ ~IsRated(i))
             /\ r.response = "ok"
                  => /\ Len(r.db.ratings) = Len(ratings) + 1
                     /\ r.db.ratings[Len(ratings) + 1].ride_id = i
                     /\ r.db.users[RideOwner(i)].total_rides
                           = users[RideOwner(i)].total_rides + 1
                     /\ \A g2 \in Ratings, d2 \in BOOLEAN, h2 \in BOOLEAN :
                           RateRide(r.db, i, g2, d2, h2)
                              = Result(r.db, "AlreadyRated")
             /\ IsRated(i) => r = Result(DB, "AlreadyRated")
    /\ \A k, m \in DOMAIN ratings :
          ratings[k].ride_id = ratings[m].ride_id => k = m
    /\ \A u \in Users :
          users[u].total_rides
             = Cardinality({k \in DOMAIN ratings :
                               RideOwner(ratings[k].ride_id) = u})

\* C26 witness: a rated ride whose owner has total_rides 1, on which a
\* second rate_ride is refused with AlreadyRated
C26_Witness ==
    \E i \in DOMAIN rides :
        /\ IsRated(i)
        /\ users[RideOwner(i)].total_rides = 1
        /\ RateRide(DB, i, 5, TRUE, TRUE) = Result(DB, "AlreadyRated")

\* the trust formula on the counters of a user document, in sixths of a
\* point: 20 * average + 0.5 * rides - 15 * damage - 10 * rash, not below 0
FormulaScore(user) ==
    LET raw == (120 * user.rating_sum) \div user.total_rides
                  + 3 * user.total_rides
                  - 90 * user.damage_count
                  - 60 * user.rash_count
    IN IF raw < 0 THEN 0 ELSE raw

\* C27: after a successful rate_ride the owner's trust score is
\* max(0, average * 20 + total_rides * 0.5 - damage_count * 15
\* - rash_count * 10) on the updated counters and average, and it is the
\* same whatever trust score was stored before (an earlier late-cancel
\* penalty is not carried over)
C27_ScoreFromCounters ==
    \A i \in DOMAIN rides, g \in Ratings, d \in BOOLEAN, h \in BOOLEAN :
        LET r == RateRide(DB, i, g, d, h)
            o == RideOwner(i)
        IN r.response = "ok" =>
              /\ r.db.users[o].total_rides = users[o].total_rides + 1
              /\ r.db.users[o].rating_sum = users[o].rating_sum + g
              /\ r.db.users[o].damage_count
                    = users[o].damage_count + (IF d THEN 1 ELSE 0)
              /\ r.db.users[o].rash_count
                    = users[o].rash_count + (IF h THEN 1 ELSE 0)
              /\ r.db.users[o].trust_score = FormulaScore(r.db.users[o])
              /\ \A x \in {0, 50 * TrustUnit, 100 * TrustUnit} :
                    RateRide([DB EXCEPT !.users[o].trust_score = x],
                             i, g, d, h).db.users[o].trust_score
                       = r.db.users[o].trust_score

\* C27 witness: a completed ride without rating whose owner, never rated,
\* has a trust score lowered by a late-cancel penalty, and a rating after
\* which the score is the formula's 20 * 5 + 0.5
C27_Witness ==
    \E i \in DOMAIN rides :
        /\ rides[i].status = "completed"
        /\ ~IsRated(i)
        /\ users[RideOwner(i)].total_rides = 0
        /\ users[RideOwner(i)].trust_score
              = (InitTrust[RideOwner(i)] - LATE_CANCEL_PENALTY) * TrustUnit
        /\ LET r == RateRide(DB, i, 5, FALSE, FALSE)
           IN /\ r.response = "ok"
              /\ r.db.users[RideOwner(i)].trust_score
                    = 100 * TrustUnit + TrustUnit \div 2

\* C28: cancel_booking by the booking's owner succeeds exactly from pending,
\* competing and confirmed, and then sets the booking cancelled and leaves
\* every other booking as it is; from cancelled, rejected, lost_auction,
\* active and completed it fails with InvalidStateTransition and changes
\* neither a booking nor a trust score
C28_CancelOnlyLive ==
    \A b \in DOMAIN bookings, late \in BOOLEAN :
        LET u == bookings[b].user_id
            r == CancelBooking(DB, u, b, late)
        IN ~Blocked(DB, u) =>
              IF bookings[b].status \in {"pending", "competing", "confirmed"}
              THEN /\ r.response = "ok"
                   /\ r.db.bookings
                         = [bookings EXCEPT ![b].status = "cancelled"]
              ELSE /\ bookings[b].status
                         \in {"cancelled", "rejected", "lost_auction",
                              "active", "completed"}
                   /\ r = Result(DB, "InvalidStateTransition")

\* C28 witness: two bookings of users who are not blocked, neither pending,
\* competing nor confirmed and in different statuses, whose cancellation
\* is refused
C28_Witness ==
    \E b, c \in DOMAIN bookings :
        /\ bookings[b].status \in {"active", "completed"}
        /\ bookings[c].status \in {"cancelled", "rejected", "lost_auction"}
        /\ \A x \in {b, c} :
              CancelBooking(DB, bookings[x].user_id, x, TRUE)
                 = Result(DB, "InvalidStateTransition")

\* C29: approve_booking succeeds exactly on a pending booking and
\* reject_booking exactly on a pending or competing one; from any other
\* status they fail with InvalidStateTransition and change nothing; a
\* successful approve or reject changes the status of that booking only,
\* so rejecting a competing booking leaves its auction and all bids as
\* they are
C29_ApproveRejectGuards ==
    \A b \in DOMAIN bookings :
        LET a == ApproveBooking(DB, b)
            r == RejectBooking(DB, b)
        IN /\ IF bookings[b].status = "pending"
              THEN /\ a.response = "ok"
                   /\ a.db = [DB EXCEPT !.bookings[b].status = "confirmed"]
              ELSE a = Result(DB, "InvalidStateTransition")
           /\ IF bookings[b].status \in {"pending", "competing"}
              THEN /\ r.response = "ok"
                   /\ r.db = [DB EXCEPT !.bookings[b].status = "rejected"]
                   /\ r.db.auctions = auctions
                   /\ r.db.bids = bids
              ELSE r = Result(DB, "InvalidStateTransition")

\* C29 witness: a rejected booking that is still the booking of a bid of an
\* active auction, on which approve and reject are now refused
C29_Witness ==
    \E b \in DOMAIN bookings, i \in DOMAIN bids :
        /\ bookings[b].status = "rejected"
        /\ bids[i].booking_id = b
        /\ auctions[bids[i].auction_id].status = "active"
        /\ ApproveBooking(DB, b) = Result(DB, "InvalidStateTransition")
        /\ RejectBooking(DB, b) = Result(DB, "InvalidStateTransition")

\* C30: cancel_booking of a competing booking by its owner changes the
\* status of that booking and nothing else: its bid stays in the auction,
\* which stays active, with the same offer and trust snapshot, and a later
\* close_auction still scores that bid
C30_CancelKeepsBid ==
    \A b \in DOMAIN bookings, late \in BOOLEAN :
        LET u == bookings[b].user_id
            r == CancelBooking(DB, u, b, late)
        IN (bookings[b].status = "competing" /\ ~Blocked(DB, u)) =>
              /\ r.response = "ok"
              /\ r.db = [DB EXCEPT !.bookings[b].status = "cancelled"]
              /\ \A i \in DOMAIN bids :
                    (bids[i].booking_id = b
                       /\ auctions[bids[i].auction_id].status = "active")
                    => /\ r.db.bids[i] = bids[i]
                       /\ r.db.auctions[bids[i].auction_id].status = "active"
                       /\ \A c \in CloseAuction(r.db, bids[i].auction_id) :
                             /\ c.response = "ok"
                             /\ c.db.bids[i].final_score
                                   = bids[i].offer_price
                                       * (100 * TrustUnit
                                            + bids[i].trust_score_snapshot)

\* C30 witness: a cancelled booking whose bid is in an active auction, which
\* close_auction would score
C30_Witness ==
    \E b \in DOMAIN bookings, i \in DOMAIN bids :
        /\ bookings[b].status = "cancelled"
        /\ bids[i].booking_id = b
        /\ auctions[bids[i].auction_id].status = "active"
        /\ \A c \in CloseAuction(DB, bids[i].auction_id) :
              c.db.bids[i].final_score # NoScore

----------------------------------------------------------------------------
(* C31: close_auction's winner is a function of the auction's bids *)

\* the winners close_auction can record for auction a from the database as
\* it is
RecordedWinners(a) == {r.db.auctions[a].winner_id : r \in CloseAuction(DB, a)}

\* the bookings close_auction can confirm for auction a
ConfirmedByClose(a) ==
    {{i \in DOMAIN r.db.bookings : r.db.bookings[i].status = "confirmed"} :
        r \in CloseAuction(DB, a)}

\* C31: two calls of close_auction on the same auction from the same
\* database (the same bids, with the same offers, snapshots and creation
\* order) record the same winner and confirm the same booking, also when
\* several bids tie on the highest final_score.
C31_WinnerDeterministic ==
    \A a \in DOMAIN auctions :
        /\ Cardinality(RecordedWinners(a)) = 1
        /\ Cardinality(ConfirmedByClose(a)) = 1

----------------------------------------------------------------------------
(* C32: final_score is written once, at the close of the bid's auction *)

\* a bid has a final_score exactly when its auction is closed
ScoreIffClosed ==
    \A i \in DOMAIN bids :
        bids[i].final_score # NoScore
            <=> auctions[bids[i].auction_id].status = "closed"

\* C32: in every reachable state a bid has a final score if and only if its
\* auction is closed.
C32_ScoreIffClosed == ScoreIffClosed

----------------------------------------------------------------------------
(* C33: an inactive or missing car takes no new booking; deactivating a car *)
(* leaves its bookings, auctions and bids alone                             *)

\* C33: in every reachable state, a request_booking for a car that is not in
\* the collection or whose is_active flag is off leaves the database as it
\* is, and fails with ResourceUnavailable when it passes the gates that come
\* first (an account that is not blocked, start < end, an eligible user);
\* update_car switching a car's flag off changes no booking, auction, bid or
\* ride.
C33_InactiveCarRefused ==
    /\ \A u \in Users, c \in Cars, s \in Times, e \in Times, p \in Prices :
          (c \notin DOMAIN cars \/ ~cars[c].is_active) =>
              LET r == RequestBooking(DB, u, c, s, e, p)
              IN /\ r.db = DB
                 /\ r.response # "ok"
                 /\ (~Blocked(DB, u) /\ s < e /\ ~NotEligible(users[u]))
                       => r.response = "ResourceUnavailable"
    /\ \A c \in DOMAIN cars :
          LET r == UpdateCar(DB, c, FALSE)
          IN /\ r.response = "ok"
             /\ ~r.db.cars[c].is_active
             /\ r.db.bookings = bookings
             /\ r.db.auctions = auctions
             /\ r.db.bids = bids
             /\ r.db.rides = rides

\* C33 witness: car 1 has been switched off while a booking on it competes in
\* an active auction, and an eligible user's request for the car is refused
C33_Witness ==
    /\ 1 \in DOMAIN cars
    /\ ~cars[1].is_active
    /\ \E i \in DOMAIN bids :
          /\ auctions[bids[i].auction_id].status = "active"
          /\ bookings[bids[i].booking_id].status = "competing"
          /\ bookings[bids[i].booking_id].car_id = 1
    /\ RequestBooking(DB, 1, 1, 0, 1, 5).response = "ResourceUnavailable"

----------------------------------------------------------------------------
(* C34: a slot held by a confirmed or started booking is not granted twice *)

\* bookings i and j are on the same car and their intervals overlap
SameSlot(i, j) ==
    /\ bookings[i].car_id = bookings[j].car_id
    /\ bookings[i].start_time < bookings[j].end_time
    /\ bookings[j].start_time < bookings[i].end_time

\* C34: with the handlers run one at a time, in every reachable state no two
\* bookings of the same car with overlapping intervals are both confirmed or
\* active.
C34_SlotHeldOnce ==
    \A i \in DOMAIN bookings, j \in DOMAIN bookings :
        (i # j /\ SameSlot(i, j))
            => ~(/\ bookings[i].status \in {"confirmed", "active"}
                 /\ bookings[j].status \in {"confirmed", "active"})

----------------------------------------------------------------------------
(* C35: a booking in a terminal status keeps it *)

TerminalStatuses == {"cancelled", "rejected", "lost_auction", "completed"}

\* no step changes the status of a booking that is in a terminal status
TerminalKept ==
    \A i \in DOMAIN bookings :
        bookings[i].status \in TerminalStatuses
            => bookings'[i].status = bookings[i].status

\* C35: a booking in status cancelled, rejected, lost_auction or completed
\* never changes status again, whichever handler runs (close_auction on an
\* auction holding its bid included).
C35_TerminalKept == [][TerminalKept]_vars

----------------------------------------------------------------------------
(* C36: a competing booking is entered in an active auction *)

\* booking b is the booking of a bid in an auction that is still active
InActiveAuction(b) ==
    \E i \in DOMAIN bids :
        /\ bids[i].booking_id = b
        /\ auctions[bids[i].auction_id].status = "active"

\* C36: with the handlers run one at a time, in every reachable state every
\* booking in status competing is the booking of some bid of an active
\* auction.
C36_CompetingHasLiveBid ==
    \A b \in DOMAIN bookings :
        bookings[b].status = "competing" => InActiveAuction(b)

----------------------------------------------------------------------------
(* C37: request_booking's escalation against close_auction of its auction *)

\* every bid inserted by a step goes into an auction that is active
BidsEnterActive ==
    \A i \in DOMAIN bids' \ DOMAIN bids :
        auctions'[bids'[i].auction_id].status = "active"

\* once an auction is closed, no booking linked by one of its bids is
\* competing
ClosedLeavesNoneCompeting ==
    \A i \in DOMAIN bids :
        auctions[bids[i].auction_id].status = "closed"
            => bookings[bids[i].booking_id].status # "competing"

\* C37: under any interleaving of request_booking calls with a close_auction
\* of the auction they escalate into, no bid is inserted into an auction that
\* is closed or cancelled, and after the close no booking linked by a bid of
\* that auction is competing.
C37_NoBidAfterClose == []ClosedLeavesNoneCompeting /\ [][BidsEnterActive]_vars

----------------------------------------------------------------------------
(* C38: a bid's offer_price mirrors the offer_price of its booking *)

\* C38: with the handlers run one at a time, in every reachable state every
\* bid of an active auction has the offer_price of the booking it links.
C38_BidMirrorsBooking ==
    \A i \in DOMAIN bids :
        auctions[bids[i].auction_id].status = "active"
            => bids[i].offer_price = bookings[bids[i].booking_id].offer_price

----------------------------------------------------------------------------
(* C39: a ride and its booking stay in step *)

\* a ride exists only for a booking that is active or completed; the booking
\* of an active ride is active and the booking of a completed ride completed
RideInStep ==
    \A i \in DOMAIN rides :
        LET b == bookings[rides[i].booking_id]
        IN /\ b.status \in {"active", "completed"}
           /\ rides[i].status = "active" => b.status = "active"
           /\ rides[i].status = "completed" => b.status = "completed"

\* C39: in every reachable state a ride exists only for a booking in status
\* active or completed, an active ride's booking is active and a completed
\* ride's booking is completed; no handler moves a booking that has a ride
\* back to confirmed or to lost_auction.
C39_RideInStep == RideInStep


====
